---- MODULE Spec2Model ----
(***************************************************************************)
(* A model of the SignalProcessorCpp signal buffer (TSignalLine) and of    *)
(* the operators built on it (TGenerator, TNoiseGenerator, TSummator,      *)
(* TMultiplier, TIntegrator, TDifferentiator, TRMS, TCorrelator,           *)
(* TAmplitudeDetector, TFrequencyAnalyzer).                                *)
(*                                                                         *)
(* A C++ double is modelled exactly, as a number (n/d)*sqrt(r) with r      *)
(* square-free; d = 0 encodes the IEEE specials (n = 0: NaN, n = 1: +Inf,  *)
(* n = -1: -Inf).  The inputs the model draws are small dyadic rationals,  *)
(* on which the double operations +, -, * are exact.  Angles are counted   *)
(* in turns (multiples of 2*pi).  std::optional<T> and std::unique_ptr<T>  *)
(* are sequences of length 0 (empty) or 1.                                 *)
(***************************************************************************)
EXTENDS Integers, Sequences, FiniteSets, TLC

(***************************************************************************)
(* double arithmetic                                                       *)
(***************************************************************************)
Abs(i) == IF i < 0 THEN -i ELSE i

Sign(i) == IF i < 0 THEN -1 ELSE IF i > 0 THEN 1 ELSE 0

RECURSIVE GCD(_, _)
GCD(a, b) == IF b = 0 THEN a ELSE GCD(b, a % b)

\* the largest s with s*s dividing m (m >= 1)
RECURSIVE SquarePart(_, _)
SquarePart(m, s) ==
    IF s * s > m THEN 1
    ELSE IF m % (s * s) = 0 THEN s * SquarePart(m \div (s * s), s)
    ELSE SquarePart(m, s + 1)

\* the value of an operation outside the numbers this representation holds;
\* evaluating it stops TLC
Unrepresentable == CHOOSE v \in {} : TRUE

NaN == [n |-> 0, d |-> 0, r |-> 1, p |-> 0]

Inf(sign) == [n |-> sign, d |-> 0, r |-> 1, p |-> 0]

\* (n/d) * sqrt(r) * pi^p in canonical form, for d > 0 and r >= 0
Num(n, d, r, p) ==
    IF n = 0 \/ r = 0 THEN [n |-> 0, d |-> 1, r |-> 1, p |-> 0]
    ELSE LET lowest(m, q, g) == [n |-> m \div g, d |-> d \div g, r |-> q, p |-> p]
             root(s) == lowest(n * s, r \div (s * s), GCD(Abs(n * s), d))
         IN  root(SquarePart(r, 2))

Rat(n, d) == Num(n, d, 1, 0)

Int2D(i) == [n |-> i, d |-> 1, r |-> 1, p |-> 0]

Zero == Int2D(0)

One == Int2D(1)

\* M_PI and TWO_PI of TCore.hpp
PI == [n |-> 1, d |-> 1, r |-> 1, p |-> 1]

TWO_PI == [n |-> 2, d |-> 1, r |-> 1, p |-> 1]

IsNaN(a) == a.d = 0 /\ a.n = 0

IsInf(a) == a.d = 0 /\ a.n # 0

IsFinite(a) == a.d # 0

RNeg(a) == [a EXCEPT !.n = -a.n]

RAbs(a) == [a EXCEPT !.n = Abs(a.n)]

\* a + b; the sum of two finite numbers that differ in radicand or in power of
\* pi is not of the form this representation holds
RAdd(a, b) ==
    IF IsNaN(a) \/ IsNaN(b) THEN NaN
    ELSE IF IsInf(a) /\ IsInf(b) THEN (IF a.n = b.n THEN a ELSE NaN)
    ELSE IF IsInf(a) THEN a
    ELSE IF IsInf(b) THEN b
    ELSE IF a.n = 0 THEN b
    ELSE IF b.n = 0 THEN a
    ELSE IF a.r # b.r \/ a.p # b.p THEN Unrepresentable
    ELSE Num(a.n * b.d + b.n * a.d, a.d * b.d, a.r, a.p)

RSub(a, b) == RAdd(a, RNeg(b))

RMul(a, b) ==
    IF IsNaN(a) \/ IsNaN(b) THEN NaN
    ELSE IF IsInf(a) \/ IsInf(b)
         THEN (IF a.n = 0 \/ b.n = 0 THEN NaN ELSE Inf(Sign(a.n) * Sign(b.n)))
    ELSE Num(a.n * b.n, a.d * b.d, a.r * b.r, a.p + b.p)

\* a / b, with the IEEE results of a division by zero
RDiv(a, b) ==
    IF IsNaN(a) \/ IsNaN(b) THEN NaN
    ELSE IF IsInf(a) THEN (IF IsInf(b) THEN NaN
                           ELSE Inf(a.n * (IF b.n < 0 THEN -1 ELSE 1)))
    ELSE IF IsInf(b) THEN Zero
    ELSE IF b.n = 0 THEN (IF a.n = 0 THEN NaN ELSE Inf(Sign(a.n)))
    ELSE Num(a.n * b.d * Sign(b.n), a.d * Abs(b.n) * b.r, a.r * b.r, a.p - b.p)

\* p/q < u/v for positive integers, by comparing the continued fractions (no
\* product of a numerator and a denominator is formed)
RECURSIVE FracLess(_, _, _, _)
FracLess(p, q, u, v) ==
    LET ip == p \div q
        iu == u \div v
    IN  IF ip # iu THEN ip < iu
        ELSE IF u % v = 0 THEN FALSE
        ELSE IF p % q = 0 THEN TRUE
        ELSE FracLess(v, u % v, q, p % q)

\* a < b for two positive finite numbers
PosLess(a, b) ==
    IF a.p # b.p THEN Unrepresentable
    ELSE IF a.r = b.r THEN FracLess(a.n, a.d, b.n, b.d)
    ELSE FracLess(a.n * a.n * a.r, a.d * a.d, b.n * b.n * b.r, b.d * b.d)

\* a < b; every comparison with NaN is false
RLt(a, b) ==
    IF IsNaN(a) \/ IsNaN(b) THEN FALSE
    ELSE IF IsInf(a) \/ IsInf(b)
         THEN (IF IsInf(a) /\ IsInf(b) THEN a.n < b.n
               ELSE IF IsInf(a) THEN a.n < 0 ELSE b.n > 0)
    ELSE IF Sign(a.n) # Sign(b.n) THEN Sign(a.n) < Sign(b.n)
    ELSE IF a.n = 0 THEN FALSE
    ELSE IF a.n > 0 THEN PosLess(a, b)
    ELSE PosLess(RNeg(b), RNeg(a))

REq(a, b) == ~IsNaN(a) /\ ~IsNaN(b) /\ a = b

RLe(a, b) == RLt(a, b) \/ REq(a, b)

RGt(a, b) == RLt(b, a)

RGe(a, b) == RLe(b, a)

\* ceil of a finite rational, as an integer
CeilInt(a) ==
    IF a.r # 1 \/ a.p # 0 THEN Unrepresentable ELSE -((-a.n) \div a.d)

\* sqrt of a number without a power of pi: sqrt((n/d)*sqrt(1)) = sqrt(n*d)/d
RSqrt(a) ==
    IF IsNaN(a) THEN NaN
    ELSE IF IsInf(a) THEN (IF a.n > 0 THEN a ELSE NaN)
    ELSE IF a.n < 0 THEN NaN
    ELSE IF a.r # 1 \/ a.p # 0 THEN Unrepresentable
    ELSE Num(1, a.d, a.n * a.d, 0)

\* sin(a) for a = q*pi with 12*q or 8*q an integer, the angles whose sine is a
\* single surd
Sin(a) ==
    IF IsNaN(a) \/ IsInf(a) THEN NaN
    ELSE IF a.n = 0 THEN Zero
    ELSE IF a.p # 1 \/ a.r # 1 THEN Unrepresentable
    ELSE IF 12 % a.d = 0
    THEN LET k == ((a.n * (12 \div a.d)) % 24)
         IN  CASE k \in {0, 12} -> Zero
               [] k \in {2, 10} -> Rat(1, 2)
               [] k \in {14, 22} -> Rat(-1, 2)
               [] k \in {4, 8} -> Num(1, 2, 3, 0)
               [] k \in {16, 20} -> Num(-1, 2, 3, 0)
               [] k = 6 -> One
               [] k = 18 -> Int2D(-1)
               [] k \in {3, 9} -> Num(1, 2, 2, 0)
               [] k \in {15, 21} -> Num(-1, 2, 2, 0)
               [] OTHER -> Unrepresentable
    ELSE IF 8 % a.d = 0
    THEN LET k == ((a.n * (8 \div a.d)) % 16)
         IN  CASE k \in {2, 6} -> Num(1, 2, 2, 0)
               [] k \in {10, 14} -> Num(-1, 2, 2, 0)
               [] OTHER -> Unrepresentable
    ELSE Unrepresentable

\* cos(a) = sin(a + pi/2)
Cos(a) == IF a.n = 0 THEN One ELSE Sin(RAdd(a, Num(1, 2, 1, 1)))

\* tan(a) = sin(a)/cos(a); at an odd multiple of pi/2 the double result is a
\* huge finite number of the sign of the quotient, modelled as an infinity
Tan(a) == RDiv(Sin(a), Cos(a))

(***************************************************************************)
(* std::optional, exceptions                                               *)
(***************************************************************************)
Nullopt == <<>>

Some(v) == <<v>>

HasValue(o) == Len(o) = 1

\* o.value_or(v)
ValueOr(o, v) == IF HasValue(o) THEN o[1] ELSE v

\* *o: reading an empty optional is undefined behaviour, undef stands for
\* whatever the build then reads
Deref(o, undef) == IF HasValue(o) THEN o[1] ELSE undef

nullptr == "nullptr"

OK == [status |-> "ok", what |-> ""]

\* throw SignalProcessingError(what)
SignalProcessingError(what) == [status |-> "SignalProcessingError", what |-> what]

\* throw SignalProcesserException(what), the error class TAmplitudeDetector.cpp
\* still names
SignalProcesserException(what) ==
    [status |-> "SignalProcesserException", what |-> what]

\* the std::out_of_range thrown by std::vector::at
OutOfRange == [status |-> "out_of_range", what |-> "vector::at"]

(***************************************************************************)
(* TSignalLine                                                             *)
(***************************************************************************)
DEFAULT_SAMPLING_FREQ_HZ == Int2D(100)

DEFAULT_DURATION_SECONDS == Int2D(1)

DEFAULT_FREQ_HZ == Int2D(1)

DEFAULT_INIT_PHASE == Zero

DEFAULT_OFFSET_Y == Zero

DEFAULT_AMPLITUDE == One

DEFAULT_INACCURACY == Rat(1, 1000000000)

DEFAULT_NORMALIZE_FACTOR == One

DEFAULT_PREFERENCE == "Auto"

\* Point{.x = 0.0, .y = 0.0}
Point(x, y) == [x |-> x, y |-> y]

\* TSignalLineParams{}: the member initialisers of the struct
TSignalLineParams ==
    [samplingFrequency    |-> Some(DEFAULT_SAMPLING_FREQ_HZ),
     duration             |-> Some(DEFAULT_DURATION_SECONDS),
     oscillationFrequency |-> Some(DEFAULT_FREQ_HZ),
     initPhase            |-> Some(DEFAULT_INIT_PHASE),
     offsetY              |-> Some(DEFAULT_OFFSET_Y),
     amplitude            |-> Some(DEFAULT_AMPLITUDE),
     pointsCount          |-> 0,
     normalizeFactor      |-> Some(DEFAULT_NORMALIZE_FACTOR),
     maxValue             |-> Nullopt,
     minValue             |-> Nullopt]

\* _points.resize(count, Point{0.0, 0.0}) on an empty vector
Resize(count) == [i \in 1..count |-> Point(Zero, Zero)]

\* a TSignalLine object
SignalLine(points, params) == [_points |-> points, _params |-> params]

\* a constructor's outcome: the object it built, or the exception it threw
Built(sl) == [status |-> "ok", what |-> "", sl |-> <<sl>>]

Failed(exc) == [status |-> exc.status, what |-> exc.what, sl |-> <<>>]

\* the count without the extra point: ceil(duration * samplingFrequency)
PointsCountCeilOnly(duration, samplingFrequency) ==
    CeilInt(RMul(duration, samplingFrequency))

\* static_cast<std::size_t>(ceil(duration * samplingFrequency + 1))
PointsCountFor(duration, samplingFrequency) ==
    CeilInt(RAdd(RMul(duration, samplingFrequency), One))

\* TSignalLine(double samplingFrequency, double duration, ...)
TSignalLine_FreqDuration(samplingFrequency, duration) ==
    IF RLe(duration, Zero)
    THEN Failed(SignalProcessingError("Duration should be positive"))
    ELSE IF RLe(samplingFrequency, Zero)
    THEN Failed(SignalProcessingError("Sampling frequency should be positive"))
    ELSE LET count == PointsCountFor(duration, samplingFrequency)
         IN  Built(SignalLine(Resize(count),
                 [TSignalLineParams EXCEPT
                     !.samplingFrequency = Some(samplingFrequency),
                     !.duration = Some(duration),
                     !.pointsCount = count]))

\* TSignalLine(std::size_t pointsCount, ...)
TSignalLine_PointsCount(pointsCount) ==
    Built(SignalLine(Resize(pointsCount),
                     [TSignalLineParams EXCEPT !.pointsCount = pointsCount]))

\* TSignalLine(TSignalLineParams params, std::optional<SL::Preference>)
TSignalLine_Params(params, preference, undef) ==
    LET pref == ValueOr(preference, DEFAULT_PREFERENCE)
        duration == Deref(params.duration, undef)
        samplingFrequency == Deref(params.samplingFrequency, undef)
    IN  IF pref \in {"Auto", "PreferDurationAndSamplingFreq"}
        THEN IF RLe(duration, Zero)
             THEN Failed(SignalProcessingError("Duration should be positive"))
             ELSE IF RLe(samplingFrequency, Zero)
             THEN Failed(SignalProcessingError(
                             "Sampling frequency should be positive"))
             ELSE LET count == PointsCountFor(duration, samplingFrequency)
                  IN  Built(SignalLine(Resize(count),
                                       [params EXCEPT !.pointsCount = count]))
        ELSE IF pref = "PreferPointsCount"
        THEN Built(SignalLine(Resize(params.pointsCount), params))
        ELSE Failed(SignalProcessingError("Invalid preference"))

\* TSignalLine(const TSignalLine* signalLine, double offsetX, double offsetY),
\* signalLine given as an optional object (empty: nullptr)
TSignalLine_Offset(signalLine, offsetX, offsetY) ==
    IF ~HasValue(signalLine)
    THEN Failed(SignalProcessingError("Signal line pointer is null"))
    ELSE LET src == signalLine[1]
         IN  Built(SignalLine(
                 [i \in 1..src._params.pointsCount |->
                     Point(RAdd(src._points[i].x, offsetX),
                           RAdd(src._points[i].y, offsetY))],
                 [src._params EXCEPT !.offsetY = Nullopt]))

\* _points.at(index): does index name a point?
InRange(sl, index) == index >= 0 /\ index < Len(sl._points)

\* getPoint(index), for an index in range (the vector is 0-based)
getPoint(sl, index) == sl._points[index + 1]

\* setPoint(index, xCoord, yCoord) for an index in range
setPoint(sl, index, xCoord, yCoord) ==
    [sl EXCEPT !._points[index + 1] = Point(xCoord, yCoord)]

\* areCloseX with < in the place of <=
areCloseXStrict(point1, point2, inaccuracy) ==
    IF HasValue(inaccuracy)
    THEN IF RLt(inaccuracy[1], Zero)
         THEN [status |-> "SignalProcessingError",
               what |-> "Inaccuracy should be positive", val |-> FALSE]
         ELSE [status |-> "ok", what |-> "",
               val |-> RLt(RAbs(RSub(point1.x, point2.x)), inaccuracy[1])]
    ELSE [status |-> "ok", what |-> "", val |-> REq(point1.x, point2.x)]

\* areCloseX(point1, point2, inaccuracy): a boolean, or the exception
areCloseX(point1, point2, inaccuracy) ==
    IF HasValue(inaccuracy)
    THEN IF RLt(inaccuracy[1], Zero)
         THEN [status |-> "SignalProcessingError",
               what |-> "Inaccuracy should be positive", val |-> FALSE]
         ELSE [status |-> "ok", what |-> "",
               val |-> RLe(RAbs(RSub(point1.x, point2.x)), inaccuracy[1])]
    ELSE [status |-> "ok", what |-> "", val |-> REq(point1.x, point2.x)]

\* this->equals(signalLine, inaccuracy) for two objects (the null pointer is
\* handled by the callers, which test it first)
equals(this, signalLine, inaccuracy) ==
    LET pointsCount == this._params.pointsCount
    IN  IF pointsCount # signalLine._params.pointsCount
        THEN [status |-> "ok", what |-> "", val |-> FALSE]
        ELSE IF ~InRange(this, 0) \/ ~InRange(signalLine, 0)
        THEN [status |-> "out_of_range", what |-> "vector::at", val |-> FALSE]
        ELSE LET first == areCloseX(getPoint(this, 0), getPoint(signalLine, 0),
                                    inaccuracy)
             IN  IF first.status # "ok" THEN first
                 ELSE IF ~first.val THEN [status |-> "ok", what |-> "", val |-> FALSE]
                 ELSE areCloseX(getPoint(this, pointsCount - 1),
                                getPoint(signalLine, pointsCount - 1), inaccuracy)

\* the loop of findByComparison over _points from position k on; greater
\* selects std::greater (findMax), else std::less (findMin)
RECURSIVE CompareLoop(_, _, _, _)
CompareLoop(points, k, value, greater) ==
    IF k > Len(points) THEN value
    ELSE CompareLoop(points, k + 1,
             IF (IF greater THEN RGt(points[k].y, value)
                 ELSE RLt(points[k].y, value))
             THEN points[k].y ELSE value,
             greater)

\* findMax(forceUpdate) / findMin(forceUpdate): the value returned and the
\* object with its cache as the call leaves it; _points[0] of an empty vector
\* is an undefined read
findByComparison(sl, greater, forceUpdate, undef) ==
    LET cachedValue == IF greater THEN sl._params.maxValue ELSE sl._params.minValue
        first == IF Len(sl._points) = 0 THEN undef ELSE sl._points[1].y
        found(value) ==
            [sl |-> IF greater THEN [sl EXCEPT !._params.maxValue = Some(value)]
                    ELSE [sl EXCEPT !._params.minValue = Some(value)],
             val |-> value]
    IN  IF HasValue(cachedValue) /\ ~forceUpdate
        THEN [sl |-> sl, val |-> cachedValue[1]]
        ELSE found(CompareLoop(sl._points, 1, first, greater))

findMax(sl, forceUpdate, undef) == findByComparison(sl, TRUE, forceUpdate, undef)

findMin(sl, forceUpdate, undef) == findByComparison(sl, FALSE, forceUpdate, undef)

\* removeDCComponent(inaccuracy): the object as the call leaves it
removeDCComponent(sl, inaccuracy, undef) ==
    LET remove(maxValue, minValue, cached) ==
            LET lowerBound == RSub(RAbs(maxValue), Deref(inaccuracy, undef))
                upperBound == RAdd(RAbs(maxValue), Deref(inaccuracy, undef))
                shift == RDiv(RAdd(maxValue, minValue), Int2D(2))
            IN  IF RLt(RAbs(minValue), lowerBound) \/ RGt(RAbs(minValue), upperBound)
                THEN [cached EXCEPT !._points =
                         [i \in 1..Len(sl._points) |->
                             Point(sl._points[i].x, RSub(sl._points[i].y, shift))]]
                ELSE cached
        withMin(max, min) == remove(max.val, min.val, min.sl)
        withMax(max) == withMin(max, findMin(max.sl, FALSE, undef))
    IN  withMax(findMax(sl, FALSE, undef))

(***************************************************************************)
(* Operators.  An operator object is a record of its private members; a    *)
(* const TSignalLine* member is nullptr or the name of a caller's buffer,  *)
(* which mem maps to the object it points to.  execute() yields the object *)
(* as the call leaves it and the exception, if any, that ended the call.   *)
(***************************************************************************)
Returned(self) == [status |-> "ok", what |-> "", self |-> self]

Thrown(self, exc) == [status |-> exc.status, what |-> exc.what, self |-> self]

\* the loop of TSummator::execute stopping one point early:
\* for (i = 0; i < pointsCount - 1; ++i)
RECURSIVE SummatorLoopShort(_, _, _, _)
SummatorLoopShort(i, sl, signalLine1, signalLine2) ==
    IF ~(i < signalLine1._params.pointsCount - 1) THEN [status |-> "ok", sl |-> sl]
    ELSE IF ~InRange(signalLine1, i) \/ ~InRange(signalLine2, i) \/ ~InRange(sl, i)
    THEN [status |-> "out_of_range", sl |-> sl]
    ELSE SummatorLoopShort(i + 1,
             setPoint(sl, i, getPoint(signalLine1, i).x,
                      RAdd(getPoint(signalLine1, i).y, getPoint(signalLine2, i).y)),
             signalLine1, signalLine2)

\* the loop of TSummator::execute from index i on; at each index the result
\* buffer is written with setPoint, whose at() throws past its end
RECURSIVE SummatorLoop(_, _, _, _)
SummatorLoop(i, sl, signalLine1, signalLine2) ==
    IF ~(i < signalLine1._params.pointsCount) THEN [status |-> "ok", sl |-> sl]
    ELSE IF ~InRange(signalLine1, i) \/ ~InRange(signalLine2, i) \/ ~InRange(sl, i)
    THEN [status |-> "out_of_range", sl |-> sl]
    ELSE SummatorLoop(i + 1,
             setPoint(sl, i, getPoint(signalLine1, i).x,
                      RAdd(getPoint(signalLine1, i).y, getPoint(signalLine2, i).y)),
             signalLine1, signalLine2)

\* TSummator{signalLine1, signalLine2, inaccuracy}
TSummator(signalLine1, signalLine2, inaccuracy) ==
    [_params |-> [inaccuracy |-> inaccuracy, signalLine1 |-> signalLine1,
                  signalLine2 |-> signalLine2],
     _sl |-> <<>>, _isExecuted |-> FALSE]

\* TSummator::execute()
TSummator_execute(self, mem, undef) ==
    IF self._params.signalLine1 = nullptr \/ self._params.signalLine2 = nullptr
    THEN Thrown(self, SignalProcessingError("Invalid signal lines (nullptr)"))
    ELSE
    LET signalLine1 == mem[self._params.signalLine1]
        signalLine2 == mem[self._params.signalLine2]
        \* the loop has ended: _sl holds what it wrote
        finish(loop) ==
            IF loop.status # "ok"
            THEN Thrown([self EXCEPT !._sl = <<loop.sl>>], OutOfRange)
            ELSE Returned([self EXCEPT !._sl = <<loop.sl>>, !._isExecuted = TRUE])
        \* _sl = std::make_unique<TSignalLine>(slParams), then the loop
        fill(made) ==
            IF made.status # "ok" THEN Thrown(self, made)
            ELSE finish(SummatorLoop(0, made.sl[1], signalLine1, signalLine2))
        \* if (!signalLine1->equals(signalLine2, inaccuracy)) throw
        checked(eq) ==
            IF eq.status # "ok" THEN Thrown(self, eq)
            ELSE IF ~eq.val
            THEN Thrown(self, SignalProcessingError("Signal lines aren't equal"))
            ELSE fill(TSignalLine_Params(signalLine1._params,
                                         Some(DEFAULT_PREFERENCE), undef))
    IN  checked(equals(signalLine1, signalLine2, self._params.inaccuracy))

\* the body of the loop of TMultiplier::execute at index i: the result
\* buffer acc.sl is written with setPoint, whose at() throws past its end
MultiplierStep(i, acc, signalLine1, signalLine2) ==
    IF ~InRange(signalLine1, i) \/ ~InRange(signalLine2, i) \/ ~InRange(acc.sl, i)
    THEN [status |-> "out_of_range", sl |-> acc.sl]
    ELSE [status |-> "ok",
          sl |-> setPoint(acc.sl, i, getPoint(signalLine1, i).x,
                          RMul(getPoint(signalLine1, i).y,
                               getPoint(signalLine2, i).y))]

\* the iterations i, i + 1, ..., last of the loop, in this order and up to the
\* first that throws; the run is evaluated as its first half followed by its
\* second half, which keeps the evaluation shallow for buffers of 101 points
RECURSIVE MultiplierRun(_, _, _, _, _)
MultiplierRun(i, last, acc, signalLine1, signalLine2) ==
    IF acc.status # "ok" \/ i > last THEN acc
    ELSE IF i = last THEN MultiplierStep(i, acc, signalLine1, signalLine2)
    ELSE MultiplierRun((i + last) \div 2 + 1, last,
                       MultiplierRun(i, (i + last) \div 2, acc,
                                     signalLine1, signalLine2),
                       signalLine1, signalLine2)

\* the loop of TMultiplier::execute from index i on:
\* for (i = 0; i < signalLine1 pointsCount; ++i)
MultiplierLoop(i, sl, signalLine1, signalLine2) ==
    MultiplierRun(i, signalLine1._params.pointsCount - 1,
                  [status |-> "ok", sl |-> sl], signalLine1, signalLine2)

\* TMultiplier{signalLine1, signalLine2, inaccuracy}
TMultiplier(signalLine1, signalLine2, inaccuracy) ==
    [_params |-> [inaccuracy |-> inaccuracy, signalLine1 |-> signalLine1,
                  signalLine2 |-> signalLine2],
     _sl |-> <<>>, _isExecuted |-> FALSE]

\* TMultiplier::execute()
TMultiplier_execute(self, mem, undef) ==
    IF self._params.signalLine1 = nullptr \/ self._params.signalLine2 = nullptr
    THEN Thrown(self, SignalProcessingError("Invalid signal lines (nullptr)"))
    ELSE
    LET signalLine1 == mem[self._params.signalLine1]
        signalLine2 == mem[self._params.signalLine2]
        \* the loop has ended: _sl holds what it wrote
        finish(loop) ==
            IF loop.status # "ok"
            THEN Thrown([self EXCEPT !._sl = <<loop.sl>>], OutOfRange)
            ELSE Returned([self EXCEPT !._sl = <<loop.sl>>, !._isExecuted = TRUE])
        \* _sl = std::make_unique<TSignalLine>(slParams), then the loop
        fill(made) ==
            IF made.status # "ok" THEN Thrown(self, made)
            ELSE finish(MultiplierLoop(0, made.sl[1], signalLine1, signalLine2))
        \* if (!signalLine1->equals(signalLine2, inaccuracy)) throw
        checked(eq) ==
            IF eq.status # "ok" THEN Thrown(self, eq)
            ELSE IF ~eq.val
            THEN Thrown(self, SignalProcessingError("Signal lines aren't equal"))
            ELSE fill(TSignalLine_Params(signalLine1._params,
                                         Some(DEFAULT_PREFERENCE), undef))
    IN  checked(equals(signalLine1, signalLine2, self._params.inaccuracy))

\* getSignalLine() without its check of _isExecuted
getSignalLineUnchecked(self, name) ==
    [status |-> "ok", what |-> "", sl |-> self._sl]

\* getSignalLine() of an operator that owns a result buffer
getSignalLine(self, name) ==
    IF ~self._isExecuted
    THEN [status |-> "SignalProcessingError", what |-> name, sl |-> <<>>]
    ELSE [status |-> "ok", what |-> "", sl |-> self._sl]

(***************************************************************************)
(* TIntegrator                                                             *)
(***************************************************************************)
\* a loop's state: the running _integral, the panels summed so far (each the
\* pair of its first and last index) and how the loop ended
LoopState(integral, panels, status) ==
    [status |-> status, integral |-> integral, panels |-> panels]

\* the body of the Trapezoidal loop with the width of the panel left out: the
\* mean of the two ordinates is added as it is
TrapezoidalPanelUnitWidth(i, signalLine, acc) ==
    IF ~InRange(signalLine, i - 1) \/ ~InRange(signalLine, i)
    THEN LoopState(acc.integral, acc.panels, "out_of_range")
    ELSE LoopState(RAdd(acc.integral,
                        RDiv(RAdd(getPoint(signalLine, i - 1).y,
                                  getPoint(signalLine, i).y), Int2D(2))),
                   Append(acc.panels, <<i - 1, i>>), "ok")

\* the body of the Trapezoidal loop at index i
TrapezoidalPanel(i, signalLine, acc) ==
    IF ~InRange(signalLine, i - 1) \/ ~InRange(signalLine, i)
    THEN LoopState(acc.integral, acc.panels, "out_of_range")
    ELSE LET xCoordBefore == getPoint(signalLine, i - 1).x
             xCoord == getPoint(signalLine, i).x
             yCoordBefore == getPoint(signalLine, i - 1).y
             yCoord == getPoint(signalLine, i).y
         IN  LoopState(RAdd(acc.integral,
                            RMul(RDiv(RAdd(yCoordBefore, yCoord), Int2D(2)),
                                 RSub(xCoord, xCoordBefore))),
                       Append(acc.panels, <<i - 1, i>>), "ok")

\* the iterations i, i + 1, ..., last of the Trapezoidal loop, in this order
\* and up to the first that throws; the run is evaluated as its first half
\* followed by its second half, which keeps the evaluation shallow for the
\* 101-point buffers that the default parameters give
RECURSIVE TrapezoidalRun(_, _, _, _)
TrapezoidalRun(i, last, signalLine, acc) ==
    IF acc.status # "ok" \/ i > last THEN acc
    ELSE IF i = last THEN TrapezoidalPanel(i, signalLine, acc)
    ELSE TrapezoidalRun((i + last) \div 2 + 1, last, signalLine,
                        TrapezoidalRun(i, (i + last) \div 2, signalLine, acc))

\* case Trapezoidal: for (i = 1; i < pointsCount; ++i)
TrapezoidalLoop(i, signalLine, pointsCount, acc) ==
    TrapezoidalRun(i, pointsCount - 1, signalLine, acc)

\* Simpson's loop stopping one panel early: for (i = 1; i < pointsCount - 2; ...)
RECURSIVE SimpsonLoopShort(_, _, _, _)
SimpsonLoopShort(i, signalLine, pointsCount, acc) ==
    IF ~(i < pointsCount - 2) THEN acc
    ELSE IF ~InRange(signalLine, i - 1) \/ ~InRange(signalLine, i + 1)
    THEN LoopState(acc.integral, acc.panels, "out_of_range")
    ELSE LET xCoordBefore == getPoint(signalLine, i - 1).x
             xCoordNext == getPoint(signalLine, i + 1).x
             yCoordBefore == getPoint(signalLine, i - 1).y
             yCoord == getPoint(signalLine, i).y
             yCoordNext == getPoint(signalLine, i + 1).y
         IN  SimpsonLoopShort(i + 2, signalLine, pointsCount,
                 LoopState(RAdd(acc.integral,
                                RMul(RDiv(RSub(xCoordNext, xCoordBefore), Int2D(6)),
                                     RAdd(RAdd(yCoordBefore,
                                               RMul(Int2D(4), yCoord)),
                                          yCoordNext))),
                           Append(acc.panels, <<i - 1, i + 1>>), "ok"))

\* case Simpson: for (i = 1; i < pointsCount - 1; i += 2)
RECURSIVE SimpsonLoop(_, _, _, _)
SimpsonLoop(i, signalLine, pointsCount, acc) ==
    IF ~(i < pointsCount - 1) THEN acc
    ELSE IF ~InRange(signalLine, i - 1) \/ ~InRange(signalLine, i + 1)
    THEN LoopState(acc.integral, acc.panels, "out_of_range")
    ELSE LET xCoordBefore == getPoint(signalLine, i - 1).x
             xCoordNext == getPoint(signalLine, i + 1).x
             yCoordBefore == getPoint(signalLine, i - 1).y
             yCoord == getPoint(signalLine, i).y
             yCoordNext == getPoint(signalLine, i + 1).y
         IN  SimpsonLoop(i + 2, signalLine, pointsCount,
                 LoopState(RAdd(acc.integral,
                                RMul(RDiv(RSub(xCoordNext, xCoordBefore), Int2D(6)),
                                     RAdd(RAdd(yCoordBefore,
                                               RMul(Int2D(4), yCoord)),
                                          yCoordNext))),
                           Append(acc.panels, <<i - 1, i + 1>>), "ok"))

\* case Boole: for (i = 0; i < pointsCount - 4; i += 4)
RECURSIVE BooleLoop(_, _, _, _)
BooleLoop(i, signalLine, pointsCount, acc) ==
    IF ~(i < pointsCount - 4) THEN acc
    ELSE IF ~InRange(signalLine, i) \/ ~InRange(signalLine, i + 4)
    THEN LoopState(acc.integral, acc.panels, "out_of_range")
    ELSE LET xCoord == getPoint(signalLine, i).x
             xCoordNext4 == getPoint(signalLine, i + 4).x
             yCoord == getPoint(signalLine, i).y
             yCoordNext1 == getPoint(signalLine, i + 1).y
             yCoordNext2 == getPoint(signalLine, i + 2).y
             yCoordNext3 == getPoint(signalLine, i + 3).y
             yCoordNext4 == getPoint(signalLine, i + 4).y
         IN  BooleLoop(i + 4, signalLine, pointsCount,
                 LoopState(RAdd(acc.integral,
                     RMul(RDiv(RSub(xCoordNext4, xCoord), Int2D(90)),
                          RAdd(RAdd(RAdd(RAdd(RMul(Int2D(7), yCoord),
                                              RMul(Int2D(32), yCoordNext1)),
                                         RMul(Int2D(12), yCoordNext2)),
                                    RMul(Int2D(32), yCoordNext3)),
                               RMul(Int2D(7), yCoordNext4)))),
                     Append(acc.panels, <<i, i + 4>>), "ok"))

\* TIntegrator{signalLine, method}; _panels records, for the last execute(),
\* the panels its loop summed
TIntegrator(signalLine, method) ==
    [_params |-> [signalLine |-> signalLine, method |-> method],
     _isExecuted |-> FALSE,
     _integral |-> Zero,
     _panels |-> <<>>]

\* TIntegrator::execute()
TIntegrator_execute(self, mem) ==
    IF self._params.signalLine = nullptr
    THEN Thrown(self, SignalProcessingError("Invalid signal line (nullptr)"))
    ELSE
    LET signalLine == mem[self._params.signalLine]
        pointsCount == signalLine._params.pointsCount
        start == LoopState(Zero, <<>>, "ok")
        cleared == [self EXCEPT !._integral = Zero, !._panels = <<>>]
        finish(loop) ==
            LET summed == [self EXCEPT !._integral = loop.integral,
                                       !._panels = loop.panels]
            IN  IF loop.status # "ok" THEN Thrown(summed, OutOfRange)
                ELSE Returned([summed EXCEPT !._isExecuted = TRUE])
    IN  IF pointsCount < 2
        THEN Thrown(self, SignalProcessingError(
                 "Insufficient number of points: at least 2 points are required"))
        ELSE IF self._params.method = "Trapezoidal"
        THEN finish(TrapezoidalLoop(1, signalLine, pointsCount, start))
        ELSE IF self._params.method = "Simpson"
        THEN IF pointsCount % 2 = 0
             THEN Thrown(cleared, SignalProcessingError(
                      "Simpson's rule requires an odd number of points"))
             ELSE finish(SimpsonLoop(1, signalLine, pointsCount, start))
        ELSE IF self._params.method = "Boole"
        THEN IF pointsCount % 4 # 1
             THEN Thrown(cleared, SignalProcessingError(
                      "Boole's rule requires number of points to be 4k + 1"))
             ELSE finish(BooleLoop(0, signalLine, pointsCount, start))
        ELSE Thrown(cleared, SignalProcessingError("Unknown integration method"))

\* TIntegrator::getIntegral()
getIntegral(self) ==
    IF ~self._isExecuted
    THEN [status |-> "SignalProcessingError", what |-> "Integrator not executed",
          val |-> NaN]
    ELSE [status |-> "ok", what |-> "", val |-> self._integral]

(***************************************************************************)
(* TGenerator                                                              *)
(***************************************************************************)
DEFAULT_NORMALIZE_FACTOR_SIN == TWO_PI

DEFAULT_CLAMP_VALUE == Int2D(10)

\* std::numeric_limits<double>::epsilon() = 2^-52, of which the model needs
\* only that it lies strictly between 0 and every nonzero value it compares
EpsilonLess(a) == a.n = 0

\* TGeneratorParams{} with the given members (labels left out)
TGeneratorParams(samplingFreq, duration, oscillationFreq, initPhase, offsetY, amplitude, method, clampValue) ==
    [duration |-> duration, initPhase |-> initPhase,
     offsetY |-> offsetY, amplitude |-> amplitude,
     method |-> method, samplingFreq |-> samplingFreq, oscillationFreq |-> oscillationFreq,
     clampValue |-> clampValue]

\* TGenerator::TGenerator(TGeneratorParams): the object, or the exception
TGenerator(params) ==
    LET tanLike == params.method \in {"TangentWave", "CotangentWave"}
        slParams == [TSignalLineParams EXCEPT
                        !.samplingFrequency = Some(params.samplingFreq),
                        !.duration = Some(params.duration),
                        !.oscillationFrequency = Some(params.oscillationFreq),
                        !.initPhase = Some(params.initPhase),
                        !.offsetY = Some(params.offsetY),
                        !.amplitude = Some(params.amplitude),
                        !.normalizeFactor =
                            IF params.method \in {"SineWave", "CosineWave",
                                                  "TangentWave", "CotangentWave"}
                            THEN Some(DEFAULT_NORMALIZE_FACTOR_SIN)
                            ELSE Some(DEFAULT_NORMALIZE_FACTOR)]
        none == [_params |-> params, _sl |-> <<>>, _isExecuted |-> FALSE]
        \* _sl = std::make_unique<TSignalLine>(slParams)
        build(made) ==
            IF made.status # "ok" THEN Thrown(none, made)
            ELSE Returned([_params |-> params, _sl |-> made.sl,
                           _isExecuted |-> FALSE])
    IN  IF tanLike /\ ~HasValue(params.clampValue)
        THEN Thrown(none, SignalProcessingError("Clamp value should be specified"))
        ELSE IF tanLike /\ RLt(params.clampValue[1], Zero)
        THEN Thrown(none, SignalProcessingError("Clamp value should be positive"))
        ELSE build(TSignalLine_Params(slParams, Some(DEFAULT_PREFERENCE), Zero))

\* the clamping with its lower branch left out
ClampAbove(yCoord, clampValue) ==
    IF RGt(yCoord, clampValue) THEN clampValue ELSE yCoord

\* clamp yCoord to [-clampValue, clampValue]
Clamp(yCoord, clampValue) ==
    IF RGt(yCoord, clampValue) THEN clampValue
    ELSE IF RLt(yCoord, RNeg(clampValue)) THEN RNeg(clampValue)
    ELSE yCoord

\* the y the loop body of TGenerator::execute computes at index i
GeneratorY(params, i) ==
    LET twoPiFreq == RDiv(RMul(TWO_PI, params.oscillationFreq), params.samplingFreq)
        arg == RAdd(RMul(twoPiFreq, Int2D(i)), params.initPhase)
    IN  CASE params.method = "SineWave" ->
               RAdd(RMul(params.amplitude, Sin(arg)), params.offsetY)
          [] params.method = "CosineWave" ->
               RAdd(RMul(params.amplitude, Cos(arg)), params.offsetY)
          [] params.method = "TangentWave" ->
               RAdd(Clamp(RMul(params.amplitude, Tan(arg)), params.clampValue[1]),
                    params.offsetY)
          [] params.method = "CotangentWave" ->
               LET tanValue == RMul(params.amplitude, Tan(arg))
                   yCoord == IF EpsilonLess(RAbs(tanValue))
                             THEN RMul(params.clampValue[1],
                                       Int2D(IF RGt(tanValue, Zero) THEN 1 ELSE -1))
                             ELSE RMul(params.amplitude, RDiv(One, tanValue))
               IN  RAdd(Clamp(yCoord, params.clampValue[1]), params.offsetY)

\* the loops of TGenerator::execute, from index i on:
\* for (i = 0; i < pointsCount; ++i) _sl->setPoint(i, x, y), each iteration
\* writing its own point of the buffer the constructor has sized
GeneratorLoop(i, sl, params) ==
    [sl EXCEPT !._points =
        [k \in 1..Len(sl._points) |->
            IF i <= k - 1 /\ k - 1 < sl._params.pointsCount
            THEN Point(RDiv(Int2D(k - 1), params.samplingFreq),
                       GeneratorY(params, k - 1))
            ELSE sl._points[k]]]

\* TGenerator::execute()
TGenerator_execute(self) ==
    IF self._params.method \in {"SineWave", "CosineWave", "TangentWave",
                                "CotangentWave"}
    THEN Returned([self EXCEPT
                     !._sl = <<GeneratorLoop(0, self._sl[1], self._params)>>,
                     !._isExecuted = TRUE])
    ELSE Thrown(self, SignalProcessingError("Unknown generation method"))

(***************************************************************************)
(* TNoiseGenerator                                                         *)
(***************************************************************************)
\* TNoiseGenerator{signalLine, noiseAmplitude, noiseType}
TNoiseGenerator(signalLine, noiseAmplitude, noiseType) ==
    [_params |-> [signalLine |-> signalLine, noiseAmplitude |-> noiseAmplitude,
                  noiseType |-> noiseType],
     _sl |-> <<>>,
     _isExecuted |-> FALSE]

\* the loop of case White from index i on; draws[i + 1] is the i-th draw of
\* dist(gen), a number of [-1, 1] that scales to [-noiseAmplitude, noiseAmplitude]
RECURSIVE NoiseLoop(_, _, _, _, _)
NoiseLoop(i, sl, signalLine, noiseAmplitude, draws) ==
    IF ~(i < sl._params.pointsCount) THEN [status |-> "ok", sl |-> sl]
    ELSE IF ~InRange(signalLine, i) \/ ~InRange(sl, i)
    THEN [status |-> "out_of_range", sl |-> sl]
    ELSE NoiseLoop(i + 1,
             setPoint(sl, i, getPoint(signalLine, i).x,
                      RAdd(getPoint(signalLine, i).y,
                           RMul(noiseAmplitude, draws[(i % Len(draws)) + 1]))),
             signalLine, noiseAmplitude, draws)

\* TNoiseGenerator::execute()
TNoiseGenerator_execute(self, mem, undef, draws) ==
    IF self._params.signalLine = nullptr
    THEN Thrown(self, SignalProcessingError("Signal line is not specified."))
    ELSE
    LET signalLine == mem[self._params.signalLine]
        \* the loop has ended: _sl holds what it wrote
        finish(loop) ==
            IF loop.status # "ok"
            THEN Thrown([self EXCEPT !._sl = <<loop.sl>>], OutOfRange)
            ELSE Returned([self EXCEPT !._sl = <<loop.sl>>, !._isExecuted = TRUE])
        \* _sl = std::make_unique<TSignalLine>(slParams), then the switch
        fill(made) ==
            IF made.status # "ok" THEN Thrown(self, made)
            ELSE IF self._params.noiseType = "White"
            THEN finish(NoiseLoop(0, made.sl[1], signalLine,
                                  self._params.noiseAmplitude, draws))
            ELSE Thrown([self EXCEPT !._sl = made.sl],
                        SignalProcessingError("Unknown noise type."))
    IN  fill(TSignalLine_Params(signalLine._params, Some(DEFAULT_PREFERENCE),
                                undef))

(***************************************************************************)
(* TDifferentiator                                                         *)
(***************************************************************************)
\* TDifferentiator{signalLine, performNormalization, method}
TDifferentiator(signalLine, performNormalization, method) ==
    [_params |-> [signalLine |-> signalLine,
                  method |-> method,
                  performNormalization |-> performNormalization],
     _sl |-> <<>>,
     _isExecuted |-> FALSE]

\* a difference that leaves the normalize factor out: deltaY / deltaX
DifferenceUnscaled(point1, point2, normalizeFactor) ==
    Point(point1.x, RDiv(RSub(point2.y, point1.y), RSub(point2.x, point1.x)))

\* the point a difference of point1 and point2 gives: x of point1 and
\* deltaY / deltaX / normalizeFactor
Difference(point1, point2, normalizeFactor) ==
    Point(point1.x,
          RDiv(RDiv(RSub(point2.y, point1.y), RSub(point2.x, point1.x)),
               normalizeFactor))

\* for (i = 1; i < pointsCount - 1; ++i) of either method; shift is the
\* distance of the index written from i (0: CentralAndEdges, 1: CentralOnly)
RECURSIVE DifferentiatorLoop(_, _, _, _, _, _)
DifferentiatorLoop(i, sl, signalLine, pointsCount, normalizeFactor, shift) ==
    IF ~(i < pointsCount - 1) THEN [status |-> "ok", sl |-> sl]
    ELSE IF ~InRange(signalLine, i - 1) \/ ~InRange(signalLine, i + 1)
            \/ ~InRange(sl, i - shift)
    THEN [status |-> "out_of_range", sl |-> sl]
    ELSE DifferentiatorLoop(i + 1,
             [sl EXCEPT !._points[i - shift + 1] =
                 Difference(getPoint(signalLine, i - 1), getPoint(signalLine, i + 1),
                            normalizeFactor)],
             signalLine, pointsCount, normalizeFactor, shift)

\* TDifferentiator::execute(); bad stands for the std::bad_optional_access
\* that value() throws on an empty optional
TDifferentiator_execute(self, mem) ==
    IF self._params.signalLine = nullptr
    THEN Thrown(self, SignalProcessingError("Invalid signal line (nullptr)"))
    ELSE
    LET signalLine == mem[self._params.signalLine]
        pointsCount == signalLine._params.pointsCount
        bad == self._params.performNormalization
               /\ ~HasValue(signalLine._params.normalizeFactor)
        normalizeFactor == IF self._params.performNormalization
                           THEN signalLine._params.normalizeFactor[1]
                           ELSE One
        count == IF self._params.method = "CentralAndEdges" THEN pointsCount
                 ELSE pointsCount - 2
        made == TSignalLine_Params([signalLine._params EXCEPT !.pointsCount = count],
                                   Some("PreferPointsCount"), Zero)
        edges == [made.sl[1] EXCEPT
                     !._points[1] = Difference(getPoint(signalLine, 0),
                                               getPoint(signalLine, 1),
                                               normalizeFactor),
                     !._points[pointsCount] =
                         Difference(getPoint(signalLine, pointsCount - 2),
                                    getPoint(signalLine, pointsCount - 1),
                                    normalizeFactor)]
        finish(loop) ==
            LET filled == [self EXCEPT !._sl = <<loop.sl>>]
            IN  IF loop.status # "ok" THEN Thrown(filled, OutOfRange)
                ELSE Returned([filled EXCEPT !._isExecuted = TRUE])
    IN  IF pointsCount < 2
        THEN Thrown(self, SignalProcessingError("Insufficient number of points"))
        ELSE IF bad
        THEN Thrown(self, [status |-> "bad_optional_access", what |-> "value()"])
        ELSE IF self._params.method = "CentralAndEdges"
        THEN finish(DifferentiatorLoop(1, edges, signalLine, pointsCount,
                                       normalizeFactor, 0))
        ELSE IF self._params.method = "CentralOnly"
        THEN finish(DifferentiatorLoop(1, made.sl[1], signalLine, pointsCount,
                                       normalizeFactor, 1))
        ELSE Thrown(self, SignalProcessingError("Invalid differentiation method"))

(***************************************************************************)
(* TRMS, TCorrelator                                                       *)
(***************************************************************************)
\* normalization switched off
NormalizationOff == FALSE

\* COR::DEFAULT_PERFORM_NORMALIZATION
DEFAULT_PERFORM_NORMALIZATION == TRUE

\* a scalar step's outcome: the value, or the exception
Value(val) == [status |-> "ok", what |-> "", val |-> val]

NoValue(exc) == [status |-> exc.status, what |-> exc.what, val |-> NaN]

\* TMultiplier m(signalLine1, signalLine2); m.execute();
\* TIntegrator t(m.getSignalLine()); t.execute(); t.getIntegral()
\* on two objects: the integral of their product, as TRMS, TCorrelator and
\* TAmplitudeDetector compute it
ProductIntegral(signalLine1, signalLine2, undef) ==
    LET \* t.execute(); t.getIntegral()
        integrated(total) ==
            IF total.status # "ok" THEN NoValue(total)
            ELSE Value(getIntegral(total.self).val)
        \* m.execute(); TIntegrator t(m.getSignalLine())
        multiplied(product) ==
            IF product.status # "ok" THEN NoValue(product)
            ELSE integrated(TIntegrator_execute(
                                TIntegrator("product", "Trapezoidal"),
                                [product |-> product.self._sl[1]]))
    IN  multiplied(TMultiplier_execute(
                       TMultiplier("signalLine1", "signalLine2",
                                   Some(DEFAULT_INACCURACY)),
                       [signalLine1 |-> signalLine1, signalLine2 |-> signalLine2],
                       undef))

\* TRMS{signalLine, inaccuracy}
TRMS(signalLine, inaccuracy) ==
    [_params |-> [signalLine |-> signalLine, inaccuracy |-> inaccuracy],
     _isExecuted |-> FALSE,
     _rmsValue |-> Zero]

\* TRMS::execute()
TRMS_execute(self, mem, undef) ==
    IF self._params.signalLine = nullptr
    THEN Thrown(self, SignalProcessingError("Signal line is not specified."))
    ELSE
    LET signalLine == mem[self._params.signalLine]
        \* the multiplier and the integrator have run
        mean(totalPower) ==
            IF totalPower.status # "ok" THEN Thrown(self, totalPower)
            ELSE LET meanPower == RDiv(totalPower.val,
                                       signalLine._params.duration[1])
                 IN  Returned([self EXCEPT !._rmsValue = RSqrt(meanPower),
                                           !._isExecuted = TRUE])
    IN  IF ~HasValue(signalLine._params.duration)
        THEN Thrown(self, SignalProcessingError(
                 "Signal line does not have duration information"))
        ELSE mean(ProductIntegral(signalLine, signalLine, undef))

\* TRMS::getRMSValue()
getRMSValue(self) ==
    IF ~self._isExecuted
    THEN NoValue(SignalProcessingError("RMS not executed"))
    ELSE Value(self._rmsValue)

\* TCorrelator{signalLine1, signalLine2, performNormalization}
TCorrelator(signalLine1, signalLine2, performNormalization) ==
    [_params |-> [signalLine1 |-> signalLine1, signalLine2 |-> signalLine2,
                  performNormalization |-> performNormalization],
     _isExecuted |-> FALSE,
     _correlationValue |-> Zero]

\* TCorrelator::execute()
TCorrelator_execute(self, mem, undef) ==
    IF self._params.signalLine1 = nullptr \/ self._params.signalLine2 = nullptr
    THEN Thrown(self, SignalProcessingError("Invalid signal line (nullptr)"))
    ELSE
    LET signalLine1 == mem[self._params.signalLine1]
        signalLine2 == mem[self._params.signalLine2]
        \* rms2.execute() has run
        second(rawCorrelation, rms1, rms2) ==
            IF rms2.status # "ok" THEN Thrown(self, rms2)
            ELSE Returned([self EXCEPT
                     !._correlationValue =
                         RDiv(rawCorrelation,
                              RMul(getRMSValue(rms1.self).val,
                                   getRMSValue(rms2.self).val)),
                     !._isExecuted = TRUE])
        \* rms1.execute() has run
        first(rawCorrelation, rms1) ==
            IF rms1.status # "ok" THEN Thrown(self, rms1)
            ELSE second(rawCorrelation, rms1,
                        TRMS_execute(TRMS("signalLine2", Some(DEFAULT_INACCURACY)),
                                     [signalLine2 |-> signalLine2], undef))
        \* if (performNormalization.value_or(DEFAULT_PERFORM_NORMALIZATION))
        normalize(rawCorrelation) ==
            IF ValueOr(self._params.performNormalization,
                       DEFAULT_PERFORM_NORMALIZATION)
            THEN first(rawCorrelation,
                       TRMS_execute(TRMS("signalLine1", Some(DEFAULT_INACCURACY)),
                                    [signalLine1 |-> signalLine1], undef))
            ELSE Returned([self EXCEPT !._correlationValue = rawCorrelation,
                                       !._isExecuted = TRUE])
        \* the multiplier and the integrator have run
        raw(integratedCorrelation) ==
            IF integratedCorrelation.status # "ok"
            THEN Thrown(self, integratedCorrelation)
            ELSE normalize(RDiv(integratedCorrelation.val,
                                signalLine1._params.duration[1]))
    IN  IF ~HasValue(signalLine1._params.duration)
           \/ ~HasValue(signalLine2._params.duration)
        THEN Thrown(self, SignalProcessingError(
                 "Signal line does not have duration information"))
        ELSE raw(ProductIntegral(signalLine1, signalLine2, undef))

\* TCorrelator::getCorrelationValue()
getCorrelationValue(self) ==
    IF ~self._isExecuted
    THEN NoValue(SignalProcessingError("Correlator not executed"))
    ELSE Value(self._correlationValue)

(***************************************************************************)
(* TAmplitudeDetector                                                      *)
(***************************************************************************)
AD_DEFAULT_INACCURACY == Rat(1, 20)

\* TAmplitudeDetector{signalLine}
TAmplitudeDetector(signalLine) ==
    [_params |-> [signalLine |-> signalLine],
     _isExecuted |-> FALSE,
     _normalizedSignalLine |-> <<>>,
     _amplitude |-> Zero]

\* the pointer _normalizedSignalLine.get()
normalizedPtr == "_normalizedSignalLine"

\* TAmplitudeDetector::execute(normalizationInaccuracy): also the caller's
\* buffers as the call leaves them, findMax and findMin writing the cache of
\* the buffer they are called on
TAmplitudeDetector_execute(self, mem, normalizationInaccuracy, undef) ==
    LET out(obj, m, exc) == [status |-> exc.status, what |-> exc.what, self |-> obj,
                             mem |-> m]
    IN
    IF self._params.signalLine = nullptr
    THEN out(self, mem, SignalProcesserException("Invalid signal line (nullptr)"))
    ELSE
    LET own == self._params.signalLine = normalizedPtr
        signalLine == IF own THEN self._normalizedSignalLine[1]
                      ELSE mem[self._params.signalLine]
        \* the multiplier and the integrator have run on used, the buffer
        \* _params.signalLine points to
        detect(self2, mem1, used, energy) ==
            IF energy.status # "ok" THEN out(self2, mem1, energy)
            ELSE LET power == RDiv(energy.val, used._params.duration[1])
                     voltage == RSqrt(power)
                 IN  out([self2 EXCEPT
                             !._amplitude = RMul(RSqrt(Int2D(2)), voltage),
                             !._isExecuted = TRUE],
                         mem1, OK)
        \* self1 and mem1: this object and the caller's buffers once findMax
        \* and findMin have written the cache of cached, the buffer read
        normalize(maxValue, minValue, cached, self1, mem1) ==
            LET lowerBound == RSub(RAbs(maxValue), normalizationInaccuracy)
                upperBound == RAdd(RAbs(maxValue), normalizationInaccuracy)
                keep(used) == detect(self1, mem1, used,
                                     ProductIntegral(used, used, undef))
                shift(used) ==
                    detect([self1 EXCEPT !._normalizedSignalLine = <<used>>,
                                         !._params.signalLine = normalizedPtr],
                           mem1, used, ProductIntegral(used, used, undef))
            IN  IF RLt(RAbs(minValue), lowerBound)
                   \/ RGt(RAbs(minValue), upperBound)
                THEN shift(TSignalLine_Offset(<<cached>>, Zero,
                               RNeg(RDiv(RAdd(maxValue, minValue),
                                         Int2D(2)))).sl[1])
                ELSE keep(cached)
        withMin(max, min) ==
            normalize(max.val, min.val, min.sl,
                      IF own THEN [self EXCEPT !._normalizedSignalLine = <<min.sl>>]
                      ELSE self,
                      IF own THEN mem
                      ELSE [mem EXCEPT ![self._params.signalLine] = min.sl])
        withMax(max) == withMin(max, findMin(max.sl, FALSE, undef))
    IN  IF ~HasValue(signalLine._params.duration)
        THEN out(self, mem, SignalProcesserException(
                 "Signal line does not have time information"))
        ELSE withMax(findMax(signalLine, FALSE, undef))

\* TAmplitudeDetector::getAmplitude()
getAmplitude(self) ==
    IF ~self._isExecuted
    THEN NoValue(SignalProcesserException("Amplitude detector not executed"))
    ELSE Value(self._amplitude)

(***************************************************************************)
(* TFrequencyAnalyzer                                                      *)
(***************************************************************************)
DEFAULT_USE_ABSOLUTE_VALUE == FALSE

\* ceil of a finite rational, as a double
RCeil(a) == Int2D(CeilInt(a))

\* TFrequencyAnalyzer::TFrequencyAnalyzer(...): the object, or the exception
TFrequencyAnalyzer(signalLine, fromFrequency, toFrequency, stepFrequency, useAbsoluteValue) ==
    LET obj == [_params |-> [signalLine |-> signalLine,
                             fromFrequency |-> fromFrequency,
                             toFrequency |-> toFrequency,
                             stepFrequency |-> stepFrequency,
                             useAbsoluteValue |-> useAbsoluteValue],
                _sl |-> <<>>,
                _isExecuted |-> FALSE]
    IN  IF RGe(fromFrequency, toFrequency)
        THEN Thrown(obj, SignalProcessingError("Invalid frequency range"))
        ELSE Returned(obj)

\* the body of the loop of TFrequencyAnalyzer::execute at index i: the point
\* to store, or the exception of the generator or of the correlator
SpectrumPoint(params, DCRemovedSignal, duration, samplingFreq, i, undef) ==
    LET frequency == RAdd(params.fromFrequency,
                          RMul(Int2D(i), params.stepFrequency))
        failed(exc) == [status |-> exc.status, what |-> exc.what,
                        point |-> Point(Zero, Zero)]
        \* corr.execute() has run
        store(corr) ==
            IF corr.status # "ok" THEN failed(corr)
            ELSE LET value == getCorrelationValue(corr.self).val
                 IN  [status |-> "ok", what |-> "",
                      point |-> Point(frequency,
                                      IF ValueOr(params.useAbsoluteValue,
                                                 DEFAULT_USE_ABSOLUTE_VALUE)
                                      THEN RAbs(value) ELSE value)]
        \* gen.execute() has run:
        \* TCorrelator corr(&DCRemovedSignal, gen.getSignalLine())
        correlate(generated) ==
            store(TCorrelator_execute(
                      TCorrelator("DCRemovedSignal", "generated",
                                  Some(DEFAULT_PERFORM_NORMALIZATION)),
                      [DCRemovedSignal |-> DCRemovedSignal,
                       generated |-> getSignalLine(generated.self, "").sl[1]],
                      undef))
        \* TGenerator gen(genParams) has been built
        generate(gen) ==
            IF gen.status # "ok" THEN failed(gen)
            ELSE correlate(TGenerator_execute(gen.self))
    IN  generate(TGenerator(TGeneratorParams(samplingFreq, duration, frequency,
                                Zero, Zero, One, "SineWave",
                                Some(DEFAULT_CLAMP_VALUE))))

\* for (i = 0; i < _sl->getParams().pointsCount; ++i), from index i on
RECURSIVE AnalyzerLoop(_, _, _, _, _, _, _)
AnalyzerLoop(i, sl, params, DCRemovedSignal, duration, samplingFreq, undef) ==
    IF ~(i < sl._params.pointsCount) THEN [status |-> "ok", what |-> "", sl |-> sl]
    ELSE LET stored(step) ==
                 IF step.status # "ok"
                 THEN [status |-> step.status, what |-> step.what, sl |-> sl]
                 ELSE AnalyzerLoop(i + 1,
                          setPoint(sl, i, step.point.x, step.point.y),
                          params, DCRemovedSignal, duration, samplingFreq, undef)
         IN  stored(SpectrumPoint(params, DCRemovedSignal, duration,
                                  samplingFreq, i, undef))

\* TFrequencyAnalyzer::execute(); std::make_unique<TSignalLine>(ceil(...))
\* passes one double, which selects the constructor
\* TSignalLine(double samplingFrequency, double duration = 1.0, ...)
TFrequencyAnalyzer_execute(self, mem, undef) ==
    IF self._params.signalLine = nullptr
    THEN Thrown(self, SignalProcessingError("Invalid signal line (nullptr)"))
    ELSE
    LET signalLine == mem[self._params.signalLine]
        duration == signalLine._params.duration[1]
        samplingFreq == signalLine._params.samplingFrequency[1]
        \* the loop has ended: _sl holds what it wrote
        finish(loop) ==
            IF loop.status # "ok"
            THEN Thrown([self EXCEPT !._sl = <<loop.sl>>], loop)
            ELSE Returned([self EXCEPT !._sl = <<loop.sl>>, !._isExecuted = TRUE])
        \* _sl = std::make_unique<TSignalLine>(ceil(...)), then
        \* auto DCRemovedSignal = TSignalLine(_params.signalLine);
        \* DCRemovedSignal.removeDCComponent(); and the loop
        sweep(made) ==
            IF made.status # "ok" THEN Thrown(self, made)
            ELSE finish(AnalyzerLoop(0, made.sl[1], self._params,
                            removeDCComponent(
                                TSignalLine_Offset(<<signalLine>>, Zero,
                                                   Zero).sl[1],
                                Some(DEFAULT_INACCURACY), undef),
                            duration, samplingFreq, undef))
    IN  IF ~HasValue(signalLine._params.duration)
        THEN Thrown(self, SignalProcessingError(
                 "Signal line does not have duration information"))
        ELSE IF ~HasValue(signalLine._params.samplingFrequency)
        THEN Thrown(self, [status |-> "bad_optional_access", what |-> "value()"])
        ELSE sweep(TSignalLine_FreqDuration(
                       RCeil(RDiv(RSub(self._params.toFrequency,
                                       self._params.fromFrequency),
                                  self._params.stepFrequency)),
                       DEFAULT_DURATION_SECONDS))

(***************************************************************************)
(* The caller: two buffers A and B it owns, and one operator object at a   *)
(* time, built over pointers to them.                                      *)
(***************************************************************************)
VARIABLES
    mem,        \* the caller's buffers: name -> TSignalLine object
    kind,       \* the class of the operator object the caller holds, or "none"
    op,         \* that object (its private members)
    ret,        \* the last call: its name, arguments and outcome
    succeeded,  \* has an execute() on op returned normally since op was built?
    executes,   \* the number of execute() calls on op since it was built
    setPoints   \* the number of setPoint calls the caller has made

vars == <<mem, kind, op, ret, succeeded, executes, setPoints>>

Lines == {"A", "B"}

\* the record of a call
Call(call, args, status, what, val) ==
    [status |-> status, what |-> what, val |-> val, call |-> call, args |-> args]

NoOperator == [_isExecuted |-> FALSE]

\* the operator classes that own a result buffer _sl
BufferKinds == {"TGenerator", "TNoiseGenerator", "TSummator", "TMultiplier",
                "TDifferentiator", "TFrequencyAnalyzer"}

\* the operator classes whose result is a scalar
ScalarKinds == {"TIntegrator", "TRMS", "TCorrelator", "TAmplitudeDetector"}

Init ==
    /\ mem = [l \in Lines |-> TSignalLine_PointsCount(0).sl[1]]
    /\ kind = "none"
    /\ op = NoOperator
    /\ ret = Call("none", <<>>, "ok", "", FALSE)
    /\ succeeded = FALSE
    /\ executes = 0
    /\ setPoints = 0

(***************************************************************************)
(* The caller builds and writes its buffers                                *)
(***************************************************************************)
\* mem[l] = TSignalLine(samplingFrequency, duration)
NewFreqDuration(l, samplingFrequency, duration) ==
    LET made == TSignalLine_FreqDuration(samplingFrequency, duration)
    IN  /\ mem' = IF made.status = "ok" THEN [mem EXCEPT ![l] = made.sl[1]] ELSE mem
        /\ ret' = Call("TSignalLine(double, double)",
                       <<l, samplingFrequency, duration>>,
                       made.status, made.what, FALSE)
        /\ UNCHANGED <<kind, op, succeeded, executes, setPoints>>

\* mem[l] = TSignalLine(pointsCount)
NewPointsCount(l, pointsCount) ==
    LET made == TSignalLine_PointsCount(pointsCount)
    IN  /\ mem' = [mem EXCEPT ![l] = made.sl[1]]
        /\ ret' = Call("TSignalLine(size_t)", <<l, pointsCount>>,
                       made.status, made.what, FALSE)
        /\ UNCHANGED <<kind, op, succeeded, executes, setPoints>>

\* mem[l] = TSignalLine(params, preference), params being TSignalLineParams{}
\* with the three given members set
NewParams(l, samplingFrequency, duration, pointsCount, preference, undef) ==
    LET params == [TSignalLineParams EXCEPT
                      !.samplingFrequency = samplingFrequency,
                      !.duration = duration,
                      !.pointsCount = pointsCount]
        made == TSignalLine_Params(params, preference, undef)
    IN  /\ mem' = IF made.status = "ok" THEN [mem EXCEPT ![l] = made.sl[1]] ELSE mem
        /\ ret' = Call("TSignalLine(TSignalLineParams, Preference)",
                       <<l, samplingFrequency, duration, pointsCount, preference>>,
                       made.status, made.what, FALSE)
        /\ UNCHANGED <<kind, op, succeeded, executes, setPoints>>

\* mem[l] = TSignalLine(&mem[src], offsetX, offsetY)
NewOffset(l, src, offsetX, offsetY) ==
    LET made == TSignalLine_Offset(<<mem[src]>>, offsetX, offsetY)
    IN  /\ mem' = [mem EXCEPT ![l] = made.sl[1]]
        /\ ret' = Call("TSignalLine(const TSignalLine*, double, double)",
                       <<l, src, offsetX, offsetY>>, made.status, made.what, FALSE)
        /\ UNCHANGED <<kind, op, succeeded, executes, setPoints>>

\* mem[l].setPoint(index, xCoord, yCoord)
SetPoint(l, index, xCoord, yCoord) ==
    /\ setPoints' = setPoints + 1
    /\ IF InRange(mem[l], index)
       THEN /\ mem' = [mem EXCEPT ![l] = setPoint(mem[l], index, xCoord, yCoord)]
            /\ ret' = Call("setPoint", <<l, index>>, "ok", "", FALSE)
       ELSE /\ mem' = mem
            /\ ret' = Call("setPoint", <<l, index>>, OutOfRange.status,
                           OutOfRange.what, FALSE)
    /\ UNCHANGED <<kind, op, succeeded, executes>>

\* mem[l] = *op.getSignalLine(): the caller keeps a copy of a result buffer
StoreResult(l) ==
    /\ kind \in BufferKinds
    /\ op._isExecuted
    /\ Len(op._sl) = 1
    /\ mem' = [mem EXCEPT ![l] = op._sl[1]]
    /\ ret' = Call("store", <<l>>, "ok", "", FALSE)
    /\ UNCHANGED <<kind, op, succeeded, executes, setPoints>>

\* mem[this].equals(&mem[other], inaccuracy)
CallEquals(this, other, inaccuracy) ==
    LET eq == equals(mem[this], mem[other], inaccuracy)
    IN  /\ ret' = Call("equals", <<this, other, inaccuracy>>,
                       eq.status, eq.what, eq.val)
        /\ UNCHANGED <<mem, kind, op, succeeded, executes, setPoints>>

(***************************************************************************)
(* The caller builds an operator, executes it and asks for its result      *)
(***************************************************************************)
\* op = Class(args): a constructor that cannot throw
Construct(class, args, obj) ==
    /\ kind' = class
    /\ op' = obj
    /\ succeeded' = FALSE
    /\ executes' = 0
    /\ ret' = Call(class, args, "ok", "", FALSE)
    /\ UNCHANGED <<mem, setPoints>>

\* op = Class(args): a constructor that may throw, which leaves the caller
\* without an object
TryConstruct(class, args, made) ==
    /\ kind' = IF made.status = "ok" THEN class ELSE "none"
    /\ op' = IF made.status = "ok" THEN made.self ELSE NoOperator
    /\ succeeded' = FALSE
    /\ executes' = 0
    /\ ret' = Call(class, args, made.status, made.what, FALSE)
    /\ UNCHANGED <<mem, setPoints>>

NewGenerator(params) ==
    TryConstruct("TGenerator", <<params>>, TGenerator(params))

NewNoiseGenerator(signalLine, noiseAmplitude, noiseType) ==
    Construct("TNoiseGenerator", <<signalLine, noiseAmplitude, noiseType>>,
              TNoiseGenerator(signalLine, noiseAmplitude, noiseType))

NewSummator(signalLine1, signalLine2, inaccuracy) ==
    Construct("TSummator", <<signalLine1, signalLine2, inaccuracy>>,
              TSummator(signalLine1, signalLine2, inaccuracy))

NewMultiplier(signalLine1, signalLine2, inaccuracy) ==
    Construct("TMultiplier", <<signalLine1, signalLine2, inaccuracy>>,
              TMultiplier(signalLine1, signalLine2, inaccuracy))

NewIntegrator(signalLine, method) ==
    Construct("TIntegrator", <<signalLine, method>>,
              TIntegrator(signalLine, method))

NewDifferentiator(signalLine, performNormalization, method) ==
    Construct("TDifferentiator", <<signalLine, performNormalization, method>>,
              TDifferentiator(signalLine, performNormalization, method))

NewRMS(signalLine) ==
    Construct("TRMS", <<signalLine>>, TRMS(signalLine, Some(DEFAULT_INACCURACY)))

NewCorrelator(signalLine1, signalLine2, performNormalization) ==
    Construct("TCorrelator", <<signalLine1, signalLine2, performNormalization>>,
              TCorrelator(signalLine1, signalLine2, performNormalization))

NewAmplitudeDetector(signalLine) ==
    Construct("TAmplitudeDetector", <<signalLine>>, TAmplitudeDetector(signalLine))

NewFrequencyAnalyzer(signalLine, fromFrequency, toFrequency, stepFrequency, useAbsoluteValue) ==
    TryConstruct("TFrequencyAnalyzer",
                 <<signalLine, fromFrequency, toFrequency, stepFrequency,
                   useAbsoluteValue>>,
                 TFrequencyAnalyzer(signalLine, fromFrequency, toFrequency,
                                    stepFrequency, useAbsoluteValue))

\* the most execute() calls on one operator object
MaxExecutes == 3

\* op.execute() has ended as done tells
Executed(done) ==
    /\ executes < MaxExecutes
    /\ op' = done.self
    /\ succeeded' = (succeeded \/ done.status = "ok")
    /\ executes' = executes + 1
    /\ ret' = Call("execute", <<>>, done.status, done.what, FALSE)
    /\ UNCHANGED <<kind, setPoints>>

ExecuteGenerator ==
    /\ kind = "TGenerator"
    /\ Executed(TGenerator_execute(op))
    /\ UNCHANGED mem

ExecuteNoiseGenerator(undef, draws) ==
    /\ kind = "TNoiseGenerator"
    /\ Executed(TNoiseGenerator_execute(op, mem, undef, draws))
    /\ UNCHANGED mem

ExecuteSummator(undef) ==
    /\ kind = "TSummator"
    /\ Executed(TSummator_execute(op, mem, undef))
    /\ UNCHANGED mem

ExecuteMultiplier(undef) ==
    /\ kind = "TMultiplier"
    /\ Executed(TMultiplier_execute(op, mem, undef))
    /\ UNCHANGED mem

ExecuteIntegrator ==
    /\ kind = "TIntegrator"
    /\ Executed(TIntegrator_execute(op, mem))
    /\ UNCHANGED mem

ExecuteDifferentiator ==
    /\ kind = "TDifferentiator"
    /\ Executed(TDifferentiator_execute(op, mem))
    /\ UNCHANGED mem

ExecuteRMS(undef) ==
    /\ kind = "TRMS"
    /\ Executed(TRMS_execute(op, mem, undef))
    /\ UNCHANGED mem

ExecuteCorrelator(undef) ==
    /\ kind = "TCorrelator"
    /\ Executed(TCorrelator_execute(op, mem, undef))
    /\ UNCHANGED mem

ExecuteAmplitudeDetector(undef) ==
    /\ kind = "TAmplitudeDetector"
    /\ LET ended(done) == Executed(done) /\ mem' = done.mem
       IN  ended(TAmplitudeDetector_execute(op, mem, AD_DEFAULT_INACCURACY, undef))

\* TFrequencyAnalyzer::execute() with removeDCComponent() called on the
\* borrowed buffer itself, not on a copy of it
ExecuteFrequencyAnalyzerInPlace(undef) ==
    /\ kind = "TFrequencyAnalyzer"
    /\ Executed(TFrequencyAnalyzer_execute(op, mem, undef))
    /\ mem' = IF op._params.signalLine = nullptr THEN mem
              ELSE [mem EXCEPT ![op._params.signalLine] =
                       removeDCComponent(@, Some(DEFAULT_INACCURACY), undef)]

ExecuteFrequencyAnalyzer(undef) ==
    /\ kind = "TFrequencyAnalyzer"
    /\ Executed(TFrequencyAnalyzer_execute(op, mem, undef))
    /\ UNCHANGED mem

\* the result accessor of the class: getSignalLine(), getIntegral(),
\* getRMSValue(), getCorrelationValue() or getAmplitude()
Accessor(class, self) ==
    CASE class = "TGenerator" -> getSignalLine(self, "Generator not executed")
      [] class = "TNoiseGenerator" ->
             getSignalLine(self, "Noise Generator not executed")
      [] class = "TSummator" -> getSignalLine(self, "Summator not executed")
      [] class = "TMultiplier" -> getSignalLine(self, "Multiplier not executed")
      [] class = "TDifferentiator" ->
             getSignalLine(self, "Differentiator not executed")
      [] class = "TFrequencyAnalyzer" ->
             getSignalLine(self, "Fourier transform not executed")
      [] class = "TIntegrator" -> getIntegral(self)
      [] class = "TRMS" -> getRMSValue(self)
      [] class = "TCorrelator" -> getCorrelationValue(self)
      [] class = "TAmplitudeDetector" -> getAmplitude(self)

\* the caller calls op's result accessor
GetResult ==
    /\ kind # "none"
    /\ LET got == Accessor(kind, op)
       IN  ret' = Call("get", <<>>, got.status, got.what, FALSE)
    /\ UNCHANGED <<mem, kind, op, succeeded, executes, setPoints>>

(***************************************************************************)
(* Integration: buffer A holds a generated wave or zeroes, the caller may  *)
(* write a point of it, and integrates it                                  *)
(***************************************************************************)
\* the longest duration generated, the most points of a buffer built by
\* count, the most setPoint calls
MaxDuration == 8

MaxPoints == 9

MaxSetPoints == 1

IntegrationMethods == {"Trapezoidal", "Simpson", "Boole", "Unknown"}

\* TGenerator gen(params); gen.execute(); *gen.getSignalLine()
Generated(params) ==
    getSignalLine(TGenerator_execute(TGenerator(params).self).self, "").sl[1]

\* sine and cosine waves of a quarter turn per sample, one sample per second
GridWaves ==
    {TGeneratorParams(One, Int2D(duration), Rat(1, 4), Zero, Int2D(offsetY), One,
                      method, Some(DEFAULT_CLAMP_VALUE)) :
        duration \in 1..MaxDuration, offsetY \in {0, 1},
        method \in {"SineWave", "CosineWave"}}

WrittenXs == {Int2D(3)}

WrittenYs == {Int2D(-1), Int2D(2)}

InitIntegration ==
    /\ mem \in {[A |-> a, B |-> TSignalLine_PointsCount(0).sl[1]] :
                   a \in {Generated(params) : params \in GridWaves}
                         \cup {TSignalLine_PointsCount(pointsCount).sl[1] :
                                  pointsCount \in 0..MaxPoints}}
    /\ kind = "none"
    /\ op = NoOperator
    /\ ret = Call("none", <<>>, "ok", "", FALSE)
    /\ succeeded = FALSE
    /\ executes = 0
    /\ setPoints = 0

NextIntegration ==
    \/ /\ setPoints < MaxSetPoints
       /\ \E index \in 0..MaxPoints, xCoord \in WrittenXs, yCoord \in WrittenYs :
              SetPoint("A", index, xCoord, yCoord)
    \/ \E pointsCount \in {1, 4} : NewPointsCount("A", pointsCount)
    \/ \E signalLine \in {"A", nullptr}, method \in IntegrationMethods :
           NewIntegrator(signalLine, method)
    \/ ExecuteIntegrator
    \/ GetResult

SpecIntegration == InitIntegration /\ [][NextIntegration]_vars

\* the sum of a sequence of numbers, first to last
RECURSIVE SumSeq(_)
SumSeq(terms) ==
    IF terms = <<>> THEN Zero
    ELSE RAdd(SumSeq(SubSeq(terms, 1, Len(terms) - 1)), terms[Len(terms)])

\* x[i] and y[i] of a buffer, i counted from 0
XAt(sl, i) == sl._points[i + 1].x

YAt(sl, i) == sl._points[i + 1].y

\* sum over i = 1..n-1 of (y[i-1]+y[i])/2 * (x[i]-x[i-1])
TrapezoidalSum(sl) ==
    SumSeq([i \in 1..(Len(sl._points) - 1) |->
               RMul(RDiv(RAdd(YAt(sl, i - 1), YAt(sl, i)), Int2D(2)),
                    RSub(XAt(sl, i), XAt(sl, i - 1)))])

\* sum over i = 1, 3, .., n-2 of (x[i+1]-x[i-1])/6 * (y[i-1]+4y[i]+y[i+1])
SimpsonSum(sl) ==
    SumSeq([k \in 1..((Len(sl._points) - 1) \div 2) |->
               LET i == 2 * k - 1
               IN  RMul(RDiv(RSub(XAt(sl, i + 1), XAt(sl, i - 1)), Int2D(6)),
                        RAdd(RAdd(YAt(sl, i - 1), RMul(Int2D(4), YAt(sl, i))),
                             YAt(sl, i + 1)))])

\* sum over i = 0, 4, .., n-5 of
\* (x[i+4]-x[i])/90 * (7y[i]+32y[i+1]+12y[i+2]+32y[i+3]+7y[i+4])
BooleSum(sl) ==
    SumSeq([k \in 1..((Len(sl._points) - 1) \div 4) |->
               LET i == 4 * (k - 1)
               IN  RMul(RDiv(RSub(XAt(sl, i + 4), XAt(sl, i)), Int2D(90)),
                        RAdd(RAdd(RAdd(RAdd(RMul(Int2D(7), YAt(sl, i)),
                                            RMul(Int2D(32), YAt(sl, i + 1))),
                                       RMul(Int2D(12), YAt(sl, i + 2))),
                                  RMul(Int2D(32), YAt(sl, i + 3))),
                             RMul(Int2D(7), YAt(sl, i + 4))))])

ReferenceSum(method, sl) ==
    CASE method = "Trapezoidal" -> TrapezoidalSum(sl)
      [] method = "Simpson" -> SimpsonSum(sl)
      [] method = "Boole" -> BooleSum(sl)

\* the method's constraint on the number of points
MeetsConstraint(method, n) ==
    \/ method = "Trapezoidal" /\ n >= 2
    \/ method = "Simpson" /\ n >= 3 /\ n % 2 = 1
    \/ method = "Boole" /\ n >= 5 /\ n % 4 = 1

\* the panels lie in 0..n-1, the first starts at 0, each starts where the one
\* before it ended, and the last ends at n-1
Tiles(panels, n) ==
    /\ Len(panels) >= 1
    /\ panels[1][1] = 0
    /\ panels[Len(panels)][2] = n - 1
    /\ \A k \in 1..Len(panels) :
           /\ 0 <= panels[k][1]
           /\ panels[k][1] < panels[k][2]
           /\ panels[k][2] <= n - 1
    /\ \A k \in 1..(Len(panels) - 1) : panels[k][2] = panels[k + 1][1]

\* the last call was execute() on an integrator whose input is present
IntegratorRan ==
    /\ kind = "TIntegrator"
    /\ ret.call = "execute"
    /\ op._params.signalLine # nullptr

\* C9: whenever execute() has just run on a buffer that meets the method's
\* point-count constraint, it has succeeded, getIntegral() equals the method's
\* reference sum over the buffer, the panels it summed tile 0..n-1 and it read
\* no index outside 0..n-1
C9_IntegralIsReferenceSum ==
    (/\ IntegratorRan
     /\ MeetsConstraint(op._params.method,
                        Len(mem[op._params.signalLine]._points)))
    => LET signalLine == mem[op._params.signalLine]
       IN  /\ ret.status = "ok"
           /\ getIntegral(op).status = "ok"
           /\ getIntegral(op).val = ReferenceSum(op._params.method, signalLine)
           /\ Tiles(op._panels, Len(signalLine._points))

\* C9 happens: Boole's rule has summed two panels of a 9-point wave one of
\* whose points the caller has written, to a nonzero integral
C9_Witness ==
    /\ IntegratorRan
    /\ ret.status = "ok"
    /\ op._params.method = "Boole"
    /\ Len(op._panels) = 2
    /\ setPoints = 1
    /\ op._integral # Zero

\* the point counts on which execute() is to fail
BadCount(method, n) ==
    \/ n < 2
    \/ method = "Simpson" /\ n % 2 = 0
    \/ method = "Boole" /\ n % 4 # 1
    \/ method \notin {"Trapezoidal", "Simpson", "Boole"}

\* C10: whenever execute() has just run on a present input, it has failed
\* exactly when the input has fewer than 2 points, or the method is Simpson and
\* the count is even, or the method is Boole and the count mod 4 is not 1, or
\* the method is none of the three; and after a failure getIntegral() raises
C10_FailsExactlyOnBadCount ==
    IntegratorRan
    => LET n == Len(mem[op._params.signalLine]._points)
       IN  /\ (ret.status # "ok") <=> BadCount(op._params.method, n)
           /\ (ret.status # "ok") => getIntegral(op).status # "ok"

(***************************************************************************)
(* Lifecycle: every operator class is built over A and B, executed any     *)
(* number of times while the caller changes A in between, and asked for    *)
(* its result                                                              *)
(***************************************************************************)
\* the most setPoint calls of a lifecycle run
MaxWrites == 1

\* the wave of five points the lifecycle runs start from
LifecycleWave(method, offsetY) ==
    TGeneratorParams(One, Int2D(4), Rat(1, 4), Zero, offsetY, One, method,
                     Some(DEFAULT_CLAMP_VALUE))

Quarter == Rat(1, 4)

InitLifecycle ==
    /\ mem \in {[A |-> Generated(LifecycleWave("SineWave", offsetY)),
                 B |-> Generated(LifecycleWave("CosineWave", Zero))] :
                   offsetY \in {Zero, One}}
    /\ kind = "none"
    /\ op = NoOperator
    /\ ret = Call("none", <<>>, "ok", "", FALSE)
    /\ succeeded = FALSE
    /\ executes = 0
    /\ setPoints = 0

\* the caller changes A: writes its first point, replaces it by a buffer of
\* one point, or by a copy of B
ChangeInput ==
    \/ setPoints < MaxWrites /\ SetPoint("A", 0, Int2D(3), Int2D(2))
    \/ NewParams("A", Some(One), Some(Int2D(4)), 1, Some("PreferPointsCount"), Zero)
    \/ NewOffset("A", "B", Zero, Zero)

BuildOperator ==
    \/ \E method \in {"SineWave", "Unknown"} :
           NewGenerator(LifecycleWave(method, Zero))
    \/ \E noiseType \in {"White", "Unknown"} :
           NewNoiseGenerator("A", One, noiseType)
    \/ \E signalLine2 \in {"B", nullptr} :
           NewSummator("A", signalLine2, Some(DEFAULT_INACCURACY))
    \/ \E signalLine2 \in {"B", nullptr} :
           NewMultiplier("A", signalLine2, Some(DEFAULT_INACCURACY))
    \/ \E method \in {"Boole", "Unknown"} : NewIntegrator("A", method)
    \/ \E method \in {"CentralAndEdges", "CentralOnly", "Unknown"} :
           NewDifferentiator("A", TRUE, method)
    \/ \E signalLine \in {"A", nullptr} : NewRMS(signalLine)
    \/ \E signalLine2 \in {"B", nullptr} :
           NewCorrelator("A", signalLine2, Some(TRUE))
    \/ \E signalLine \in {"A", nullptr} : NewAmplitudeDetector(signalLine)
    \/ \E toFrequency \in {Quarter, RAdd(Quarter, Quarter)} :
           NewFrequencyAnalyzer("A", Quarter, toFrequency, Quarter,
                                Some(DEFAULT_USE_ABSOLUTE_VALUE))

ExecuteOperator ==
    \/ ExecuteGenerator
    \/ \E draw \in {One, RNeg(One)} : ExecuteNoiseGenerator(Zero, <<draw>>)
    \/ ExecuteSummator(Zero)
    \/ ExecuteMultiplier(Zero)
    \/ ExecuteIntegrator
    \/ ExecuteDifferentiator
    \/ ExecuteRMS(Zero)
    \/ ExecuteCorrelator(Zero)
    \/ ExecuteAmplitudeDetector(Zero)
    \/ ExecuteFrequencyAnalyzer(Zero)

NextLifecycle ==
    \/ ChangeInput
    \/ BuildOperator
    \/ ExecuteOperator
    \/ GetResult

SpecLifecycle == InitLifecycle /\ [][NextLifecycle]_vars

\* the errors a result accessor raises on an operator that is not executed
NotExecutedErrors ==
    {SignalProcessingError(what) :
        what \in {"Generator not executed", "Noise Generator not executed",
                  "Summator not executed", "Multiplier not executed",
                  "Differentiator not executed", "Fourier transform not executed",
                  "Integrator not executed", "RMS not executed",
                  "Correlator not executed"}}
    \cup {SignalProcesserException("Amplitude detector not executed")}

\* the outcome of the result accessor, were it called now, as an exception
AccessorError == [status |-> Accessor(kind, op).status,
                  what |-> Accessor(kind, op).what]

LateBufferKinds == BufferKinds \ {"TGenerator"}

\* C2: whenever execute() has just failed, the operator is as if it had never
\* been executed: isExecuted() is false, the result accessor raises
\* not-executed, and the operator holds no result buffer that execute() built
C2_FailedExecuteLeavesConstructed ==
    (kind # "none" /\ ret.call = "execute" /\ ret.status # "ok")
    => /\ ~op._isExecuted
       /\ AccessorError \in NotExecutedErrors
       /\ kind \in LateBufferKinds => op._sl = <<>>

(***************************************************************************)
(* Arithmetic: A and B are built each in one of the ways a caller builds a *)
(* buffer, A may be differentiated and the derivative kept in A or in B,   *)
(* and the two are compared, summed and multiplied                         *)
(***************************************************************************)
\* the most setPoint calls of an arithmetic run
MaxEdits == 1

\* a sine wave of a quarter turn per sample, one sample per second
ShortWave(duration) ==
    TGeneratorParams(One, Int2D(duration), Rat(1, 4), Zero, Zero, One,
                     "SineWave", Some(DEFAULT_CLAMP_VALUE))

\* the buffers a run starts from: built from (samplingFrequency, duration),
\* generated, built from a point count, built from a parameter record that
\* prefers its point count
ArithmeticBuffers ==
    {TSignalLine_FreqDuration(One, Int2D(2)).sl[1],
     Generated(ShortWave(2)),
     Generated(ShortWave(4)),
     TSignalLine_PointsCount(0).sl[1],
     TSignalLine_PointsCount(3).sl[1],
     TSignalLine_Params([TSignalLineParams EXCEPT
                            !.samplingFrequency = Some(One),
                            !.duration = Some(Int2D(2)),
                            !.pointsCount = 5],
                        Some("PreferPointsCount"), Zero).sl[1]}

\* the inaccuracies a caller passes: none, the default, a wide one, a
\* negative one
Inaccuracies == {Nullopt, Some(DEFAULT_INACCURACY), Some(Int2D(2)),
                 Some(Int2D(-1))}

InitArithmetic ==
    /\ mem \in [Lines -> ArithmeticBuffers]
    /\ kind = "none"
    /\ op = NoOperator
    /\ ret = Call("none", <<>>, "ok", "", FALSE)
    /\ succeeded = FALSE
    /\ executes = 0
    /\ setPoints = 0

NextArithmetic ==
    \/ /\ setPoints < MaxEdits
       /\ \E l \in Lines, index \in 0..1 : SetPoint(l, index, Int2D(3), Int2D(2))
    \/ \E other \in Lines, inaccuracy \in Inaccuracies :
           CallEquals("A", other, inaccuracy)
    \/ NewDifferentiator("A", FALSE, "CentralOnly")
    \/ ExecuteDifferentiator
    \/ \E l \in Lines : kind = "TDifferentiator" /\ StoreResult(l)
    \/ \E inaccuracy \in Inaccuracies : NewSummator("A", "B", inaccuracy)
    \/ \E inaccuracy \in Inaccuracies : NewMultiplier("A", "B", inaccuracy)
    \/ ExecuteSummator(Zero)
    \/ ExecuteMultiplier(Zero)
    \/ GetResult

SpecArithmetic == InitArithmetic /\ [][NextArithmetic]_vars

\* |x1 - x2| <= inaccuracy, or x1 = x2 when no inaccuracy is given
WithinInaccuracy(x1, x2, inaccuracy) ==
    IF HasValue(inaccuracy) THEN RLe(RAbs(RSub(x1, x2)), inaccuracy[1])
    ELSE REq(x1, x2)

\* an inaccuracy the configuration admits: none, or a real >= 0
Admitted(inaccuracy) == ~HasValue(inaccuracy) \/ RGe(inaccuracy[1], Zero)

\* two buffers that hold points are compatible: the same pointsCount, and
\* first and last x-coordinates within the inaccuracy
Compatible(a, b, inaccuracy) ==
    /\ Len(a._points) = Len(b._points)
    /\ WithinInaccuracy(a._points[1].x, b._points[1].x, inaccuracy)
    /\ WithinInaccuracy(a._points[Len(a._points)].x,
                        b._points[Len(b._points)].x, inaccuracy)

\* a Summator or a Multiplier has just run over two buffers that hold points,
\* with an inaccuracy the configuration admits
ArithmeticRan ==
    /\ kind \in {"TSummator", "TMultiplier"}
    /\ ret.call = "execute"
    /\ Len(mem.A._points) >= 1
    /\ Len(mem.B._points) >= 1
    /\ Admitted(op._params.inaccuracy)

\* the y-value the operator of the class owes at a point
Combined(class, y1, y2) ==
    IF class = "TSummator" THEN RAdd(y1, y2) ELSE RMul(y1, y2)

\* C3: whenever a Summator or a Multiplier has run over compatible buffers A
\* and B, execute() has succeeded and the result buffer has exactly as many
\* points as A, point i having A's x and the sum (the product) of the two y
C3_ResultMatchesFirstInput ==
    (ArithmeticRan /\ Compatible(mem.A, mem.B, op._params.inaccuracy))
    => /\ ret.status = "ok"
       /\ Len(op._sl) = 1
       /\ op._sl[1]._params.pointsCount = Len(mem.A._points)
       /\ Len(op._sl[1]._points) = Len(mem.A._points)
       /\ \A i \in 1..Len(mem.A._points) :
              /\ op._sl[1]._points[i].x = mem.A._points[i].x
              /\ op._sl[1]._points[i].y =
                     Combined(kind, mem.A._points[i].y, mem.B._points[i].y)

\* C4: whenever a Summator or a Multiplier has run over two buffers, it has
\* failed with the incompatible-signals error and offers no result if the
\* buffers are not compatible, and it has succeeded if they are
C4_CompatibilityIsSoleGate ==
    ArithmeticRan
    => IF Compatible(mem.A, mem.B, op._params.inaccuracy)
       THEN ret.status = "ok"
       ELSE /\ ret.status = "SignalProcessingError"
            /\ ret.what = "Signal lines aren't equal"
            /\ Accessor(kind, op).status # "ok"

\* whether the two buffers of an equals call agree as the compatibility rule
\* has it; buffers without points have no x-coordinate to differ in
Agree(a, b, inaccuracy) ==
    /\ Len(a._points) = Len(b._points)
    /\ Len(a._points) = 0 \/ Compatible(a, b, inaccuracy)

FreqDurations ==
    {<<samplingFrequency, duration>> :
        samplingFrequency \in {Rat(1, 2), One, Rat(3, 2)},
        duration \in {One, Int2D(3)}}
    \cup {<<Int2D(200), Int2D(3)>>, <<Int2D(-1), One>>, <<One, Zero>>}

\* the pointsCount a parameter record carries into the constructor
CarriedCounts == {0, 4}

Preferences == {Nullopt, Some("Auto"), Some("PreferDurationAndSamplingFreq"),
                Some("PreferPointsCount")}

NextConstruction ==
    \/ \E pair \in FreqDurations : NewFreqDuration("A", pair[1], pair[2])
    \/ \E pair \in FreqDurations, pointsCount \in CarriedCounts,
          preference \in Preferences :
           NewParams("A", Some(pair[1]), Some(pair[2]), pointsCount, preference,
                     Zero)

SpecConstruction == Init /\ [][NextConstruction]_vars

\* the last call was a constructor that takes its count from the sampling
\* frequency and the duration, both positive
BuiltFromDuration ==
    \/ /\ ret.call = "TSignalLine(double, double)"
       /\ RGt(ret.args[2], Zero)
       /\ RGt(ret.args[3], Zero)
    \/ /\ ret.call = "TSignalLine(TSignalLineParams, Preference)"
       /\ ret.args[5] \in {Nullopt, Some("Auto"),
                           Some("PreferDurationAndSamplingFreq")}
       /\ RGt(ret.args[2][1], Zero)
       /\ RGt(ret.args[3][1], Zero)

\* the sampling frequency and the duration of that call
BuiltFrequency ==
    IF ret.call = "TSignalLine(double, double)" THEN ret.args[2]
    ELSE ret.args[2][1]

BuiltDuration ==
    IF ret.call = "TSignalLine(double, double)" THEN ret.args[3]
    ELSE ret.args[3][1]

SpectrumWaves ==
    {TGeneratorParams(One, Int2D(4), Quarter, Zero, shape[1], shape[2], method,
                      Some(DEFAULT_CLAMP_VALUE)) :
        shape \in {<<Zero, One>>, <<One, One>>, <<Zero, Int2D(2)>>},
        method \in {"SineWave", "CosineWave"}}

FromFrequencies == {Quarter, Rat(3, 4)}

ToFrequencies == {Quarter, Rat(3, 4), One, Rat(5, 4)}

StepFrequencies == {Rat(1, 2), One}

InitSpectrum ==
    /\ mem \in {[A |-> Generated(params), B |-> TSignalLine_PointsCount(0).sl[1]] :
                   params \in SpectrumWaves}
    /\ kind = "none"
    /\ op = NoOperator
    /\ ret = Call("none", <<>>, "ok", "", FALSE)
    /\ succeeded = FALSE
    /\ executes = 0
    /\ setPoints = 0

NextSpectrum ==
    \/ \E fromFrequency \in FromFrequencies, toFrequency \in ToFrequencies,
          stepFrequency \in StepFrequencies,
          useAbsoluteValue \in {Nullopt, Some(FALSE), Some(TRUE)} :
           NewFrequencyAnalyzer("A", fromFrequency, toFrequency, stepFrequency,
                                useAbsoluteValue)
    \/ ExecuteFrequencyAnalyzer(Zero)
    \/ GetResult

SpecSpectrum == InitSpectrum /\ [][NextSpectrum]_vars

\* a frequency analyzer has just executed successfully
SpectrumRan ==
    /\ kind = "TFrequencyAnalyzer"
    /\ ret.call = "execute"
    /\ ret.status = "ok"

\* C7: after a successful execute() of a frequency analyzer the spectrum has
\* exactly ceil((to - from)/step) points, point i has x = from + i*step, and
\* every frequency in it is at least from and below to
C7_SpectrumStopsBeforeTo ==
    SpectrumRan
    => LET params == op._params
           spectrum == op._sl[1]._points
           count == CeilInt(RDiv(RSub(params.toFrequency, params.fromFrequency),
                                 params.stepFrequency))
       IN  /\ Len(spectrum) = count
           /\ \A i \in 1..Len(spectrum) :
                  /\ spectrum[i].x = RAdd(params.fromFrequency,
                                          RMul(Int2D(i - 1), params.stepFrequency))
                  /\ RGe(spectrum[i].x, params.fromFrequency)
                  /\ RLt(spectrum[i].x, params.toFrequency)

\* the DC-removed copy of the input the analyzer correlates with
DCRemovedCopy(signalLine) ==
    removeDCComponent(TSignalLine_Offset(<<signalLine>>, Zero, Zero).sl[1],
                      Some(DEFAULT_INACCURACY), Zero)

\* the sine of amplitude 1 and phase 0 at a frequency, sampled as the input is
ReferenceSine(signalLine, frequency) ==
    Generated(TGeneratorParams(signalLine._params.samplingFrequency[1],
                               signalLine._params.duration[1], frequency,
                               Zero, Zero, One, "SineWave",
                               Some(DEFAULT_CLAMP_VALUE)))

\* the integral over x of the product of two buffers, divided by the duration
RawCorrelation(signalLine1, signalLine2) ==
    RDiv(TrapezoidalSum(
             SignalLine([i \in 1..Len(signalLine1._points) |->
                            Point(signalLine1._points[i].x,
                                  RMul(signalLine1._points[i].y,
                                       signalLine2._points[i].y))],
                        signalLine1._params)),
         signalLine1._params.duration[1])

\* C8 as stated: after a successful execute() of a frequency analyzer every
\* spectrum value is the raw correlation of the DC-removed input with the
\* reference sine of the point's frequency (not divided by the RMS values of
\* the two), or its absolute value when the absolute-value flag is on
C8_SpectrumIsRawCorrelation ==
    SpectrumRan
    => \A i \in 1..Len(op._sl[1]._points) :
           LET point == op._sl[1]._points[i]
               rawCorrelation == RawCorrelation(DCRemovedCopy(mem.A),
                                                ReferenceSine(mem.A, point.x))
           IN  point.y = IF ValueOr(op._params.useAbsoluteValue,
                                    DEFAULT_USE_ABSOLUTE_VALUE)
                         THEN RAbs(rawCorrelation) ELSE rawCorrelation

\* sqrt of the integral over x of the square of a buffer, divided by the
\* duration
RootMeanSquare(signalLine) == RSqrt(RawCorrelation(signalLine, signalLine))

\* the raw correlation divided by the RMS values of the two buffers
NormalizedCorrelation(signalLine1, signalLine2) ==
    RDiv(RawCorrelation(signalLine1, signalLine2),
         RMul(RootMeanSquare(signalLine1), RootMeanSquare(signalLine2)))

\* C8: after a successful execute() of a frequency analyzer every spectrum
\* value is the normalized correlation of the DC-removed input with the
\* reference sine of the point's frequency: the raw correlation divided by
\* the product of the RMS values of the two; it is replaced by its absolute
\* value exactly when the absolute-value flag is on
C8_SpectrumIsNormalizedCorrelation ==
    SpectrumRan
    => \A i \in 1..Len(op._sl[1]._points) :
           LET point == op._sl[1]._points[i]
               correlation ==
                   NormalizedCorrelation(DCRemovedCopy(mem.A),
                                         ReferenceSine(mem.A, point.x))
           IN  point.y = IF ValueOr(op._params.useAbsoluteValue,
                                    DEFAULT_USE_ABSOLUTE_VALUE)
                         THEN RAbs(correlation) ELSE correlation

\* C8 happens: with the absolute-value flag on, the analyzer has stored 1 at
\* a frequency where the raw correlation of the DC-removed input with the
\* reference is -1/2
C8_Witness ==
    /\ SpectrumRan
    /\ op._params.useAbsoluteValue = Some(TRUE)
    /\ \E i \in 1..Len(op._sl[1]._points) :
           /\ op._sl[1]._points[i].y = One
           /\ RawCorrelation(DCRemovedCopy(mem.A),
                             ReferenceSine(mem.A, op._sl[1]._points[i].x))
              = Rat(-1, 2)

(***************************************************************************)
(* Differentiation: buffer A holds a generated wave, zeroes built by count *)
(* or by (samplingFrequency, duration), or a derivative the caller stored; *)
(* the caller may first write a point of it, and differentiates it         *)
(***************************************************************************)
DifferentiationMethods == {"CentralOnly", "CentralAndEdges"}

DerivativeInputs ==
    {Generated(ShortWave(duration)) : duration \in 1..4}
    \cup {TSignalLine_PointsCount(pointsCount).sl[1] : pointsCount \in 0..3}
    \cup {TSignalLine_FreqDuration(Int2D(5), Int2D(2)).sl[1]}

InitDerivative ==
    /\ mem \in {[A |-> a, B |-> TSignalLine_PointsCount(0).sl[1]] :
                   a \in DerivativeInputs}
    /\ kind = "none"
    /\ op = NoOperator
    /\ ret = Call("none", <<>>, "ok", "", FALSE)
    /\ succeeded = FALSE
    /\ executes = 0
    /\ setPoints = 0

NextDerivative ==
    \/ /\ setPoints < MaxEdits
       /\ kind = "none"
       /\ \E index \in 0..2 : SetPoint("A", index, Int2D(3), Int2D(2))
    \/ \E performNormalization \in BOOLEAN, method \in DifferentiationMethods :
           NewDifferentiator("A", performNormalization, method)
    \/ ExecuteDifferentiator
    \/ kind = "TDifferentiator" /\ StoreResult("A")
    \/ GetResult

SpecDerivative == InitDerivative /\ [][NextDerivative]_vars

\* (y[j] - y[i]) / (x[j] - x[i]) of a buffer, divided by factor
Slope(sl, i, j, factor) ==
    RDiv(RDiv(RSub(YAt(sl, j), YAt(sl, i)), RSub(XAt(sl, j), XAt(sl, i))), factor)

\* the last call was execute() of a differentiator on an input of >= 2 points
DerivativeRan ==
    /\ kind = "TDifferentiator"
    /\ ret.call = "execute"
    /\ op._params.signalLine = "A"
    /\ mem.A._params.pointsCount >= 2

\* C11: execute() of a differentiator on an input of n >= 2 points succeeds
\* and leaves a result buffer that is the reference derivative: n - 2 points
\* of central differences for CentralOnly; n points for CentralAndEdges, the
\* first a forward and the last a backward difference; each y divided by the
\* input's normalizeFactor exactly when the normalization flag is on
C11_DerivativeIsReference ==
    DerivativeRan
    => /\ ret.status = "ok"
       /\ op._isExecuted
       /\ Len(op._sl) = 1
       /\ LET n == Len(mem.A._points)
              factor == IF op._params.performNormalization
                        THEN mem.A._params.normalizeFactor[1] ELSE One
              out == op._sl[1]
          IN  IF op._params.method = "CentralOnly"
              THEN /\ out._params.pointsCount = n - 2
                   /\ Len(out._points) = n - 2
                   /\ \A k \in 0..(n - 3) :
                          YAt(out, k) = Slope(mem.A, k, k + 2, factor)
              ELSE /\ out._params.pointsCount = n
                   /\ Len(out._points) = n
                   /\ \A i \in 1..(n - 2) :
                          YAt(out, i) = Slope(mem.A, i - 1, i + 1, factor)
                   /\ YAt(out, 0) = Slope(mem.A, 0, 1, factor)
                   /\ YAt(out, n - 1) = Slope(mem.A, n - 2, n - 1, factor)

\* a normalized CentralOnly derivative of the 5-point sine 0, 1, 0, -1, 0: three
\* points, the middle one (-1 - 1) / 2 / (2 pi)
C11_Witness ==
    /\ DerivativeRan
    /\ ret.status = "ok"
    /\ op._params.method = "CentralOnly"
    /\ op._params.performNormalization
    /\ Len(mem.A._points) = 5
    /\ Len(op._sl[1]._points) = 3
    /\ YAt(op._sl[1], 1) = RDiv(Int2D(-1), TWO_PI)

(***************************************************************************)
(* Noise: buffer A is built in one of the ways a caller builds a buffer,   *)
(* or is a derivative the caller stored; the caller adds white noise to it *)
(***************************************************************************)
\* the amplitudes of the noise, and the draws of dist(gen) as numbers of
\* [-1, 1], taken in turn
NoiseAmplitudes == {Zero, Rat(1, 2), One}

NoiseDraws == {<<One>>, <<RNeg(One), Zero, Rat(1, 2)>>, <<Rat(1, 2), RNeg(One)>>}

InitNoise ==
    /\ mem \in {[A |-> a, B |-> TSignalLine_PointsCount(0).sl[1]] :
                   a \in ArithmeticBuffers}
    /\ kind = "none"
    /\ op = NoOperator
    /\ ret = Call("none", <<>>, "ok", "", FALSE)
    /\ succeeded = FALSE
    /\ executes = 0
    /\ setPoints = 0

NextNoise ==
    \/ /\ setPoints < MaxEdits
       /\ \E index \in 0..1 : SetPoint("A", index, Int2D(3), Int2D(2))
    \/ NewDifferentiator("A", FALSE, "CentralOnly")
    \/ ExecuteDifferentiator
    \/ kind = "TDifferentiator" /\ StoreResult("A")
    \/ \E noiseAmplitude \in NoiseAmplitudes :
           NewNoiseGenerator("A", noiseAmplitude, "White")
    \/ \E draws \in NoiseDraws : ExecuteNoiseGenerator(Zero, draws)
    \/ GetResult

SpecNoise == InitNoise /\ [][NextNoise]_vars

\* the last call was execute() of a white-noise injector on buffer A
NoiseRan ==
    /\ kind = "TNoiseGenerator"
    /\ ret.call = "execute"
    /\ op._params.signalLine = "A"
    /\ op._params.noiseType = "White"

\* C12: execute() of a white-noise injector on a non-null source succeeds and
\* leaves a buffer of the source's shape: the same pointsCount, the same x at
\* every index, and every y within noiseAmplitude of the source's y
C12_NoiseKeepsShape ==
    NoiseRan
    => /\ ret.status = "ok"
       /\ Len(op._sl) = 1
       /\ op._sl[1]._params.pointsCount = mem.A._params.pointsCount
       /\ Len(op._sl[1]._points) = Len(mem.A._points)
       /\ \A i \in 0..(Len(mem.A._points) - 1) :
              /\ XAt(op._sl[1], i) = XAt(mem.A, i)
              /\ RLe(RSub(YAt(mem.A, i), op._params.noiseAmplitude),
                     YAt(op._sl[1], i))
              /\ RLe(YAt(op._sl[1], i),
                     RAdd(YAt(mem.A, i), op._params.noiseAmplitude))

(***************************************************************************)
(* The cache of the extremes: the caller asks buffers A and B for their    *)
(* largest and smallest y, writes points, and makes B an offset copy of A  *)
(***************************************************************************)
\* the most setPoint calls of a run on the cache
MaxCacheWrites == 2

\* mem[l].findMax(forceUpdate) (greater) or mem[l].findMin(forceUpdate); the
\* call is const and writes the mutable cache of the buffer
FindExtreme(l, greater, forceUpdate, undef) ==
    LET found == findByComparison(mem[l], greater, forceUpdate, undef)
    IN  /\ mem' = [mem EXCEPT ![l] = found.sl]
        /\ ret' = Call(IF greater THEN "findMax" ELSE "findMin",
                       <<l, forceUpdate>>, "ok", "", found.val)
        /\ UNCHANGED <<kind, op, succeeded, executes, setPoints>>

\* the points the caller writes: a new largest y at index 0, a new smallest
\* y at index 1
CacheWrites == {<<0, Int2D(3)>>, <<1, Int2D(-3)>>}

InitCache ==
    /\ mem \in {[A |-> a, B |-> TSignalLine_PointsCount(0).sl[1]] :
                   a \in {Generated(ShortWave(2)), Generated(ShortWave(4)),
                          TSignalLine_PointsCount(2).sl[1]}}
    /\ kind = "none"
    /\ op = NoOperator
    /\ ret = Call("none", <<>>, "ok", "", FALSE)
    /\ succeeded = FALSE
    /\ executes = 0
    /\ setPoints = 0

NextCache ==
    \/ \E l \in Lines, greater \in BOOLEAN, forceUpdate \in BOOLEAN,
          undef \in {Zero, One} :
           FindExtreme(l, greater, forceUpdate, undef)
    \/ /\ setPoints < MaxCacheWrites
       /\ \E l \in Lines, write \in CacheWrites :
              SetPoint(l, write[1], Zero, write[2])
    \/ \E offsetY \in {Zero, One} : NewOffset("B", "A", Zero, offsetY)

SpecCache == InitCache /\ [][NextCache]_vars

\* the largest (greater) or the smallest y among the points of a buffer that
\* has points
ExtremeY(sl, greater) ==
    LET ys == {sl._points[i].y : i \in 1..Len(sl._points)}
    IN  CHOOSE y \in ys : \A other \in ys : IF greater THEN RLe(other, y)
                                           ELSE RLe(y, other)

\* the cache cell findMax (greater) or findMin uses
CacheOf(sl, greater) ==
    IF greater THEN sl._params.maxValue ELSE sl._params.minValue

\* this step is a call of findMax (greater) or findMin on buffer l, which
\* has points
ExtremeCalled(l, greater) ==
    /\ ret'.call = (IF greater THEN "findMax" ELSE "findMin")
    /\ ret'.args[1] = l
    /\ Len(mem[l]._points) >= 1

\* what a call of findMax/findMin on l does to the cache: a forced call, or
\* one on an empty cache, returns the extreme of the current points and stores
\* it; any other call returns the stored value; the other cache, the points
\* and the other buffer stay as they are
CacheStep(l, greater) ==
    ExtremeCalled(l, greater)
    => /\ IF ret'.args[2] \/ ~HasValue(CacheOf(mem[l], greater))
          THEN /\ ret'.val = ExtremeY(mem[l], greater)
               /\ CacheOf(mem'[l], greater) = Some(ExtremeY(mem[l], greater))
          ELSE /\ ret'.val = CacheOf(mem[l], greater)[1]
               /\ CacheOf(mem'[l], greater) = CacheOf(mem[l], greater)
       /\ CacheOf(mem'[l], ~greater) = CacheOf(mem[l], ~greater)
       /\ mem'[l]._points = mem[l]._points
       /\ \A other \in Lines \ {l} : mem'[other] = mem[other]

\* this step builds buffer l anew
BufferBuilt(l) ==
    /\ ret'.call = "TSignalLine(const TSignalLine*, double, double)"
    /\ ret'.args[1] = l

\* setPoint leaves both caches of every buffer as they are
WriteKeepsCache ==
    ret'.call = "setPoint"
    => \A l \in Lines : mem'[l]._params = mem[l]._params

\* C13: the first findMax/findMin of a buffer computes the extreme of its
\* points and stores it (a buffer starts with both caches empty), a later
\* non-forced call returns the stored value whatever setPoint has written
\* since, a forced call recomputes and replaces it, and the max cache and the
\* min cache do not touch each other
C13_CacheFollowsCalls ==
    [][/\ \A l \in Lines, greater \in BOOLEAN : CacheStep(l, greater)
       /\ WriteKeepsCache
       /\ \A l \in Lines :
              BufferBuilt(l) => \A greater \in BOOLEAN :
                                    ~HasValue(CacheOf(mem'[l], greater))]_vars

(***************************************************************************)
(* Scaffolds: A and B are buffers built from a point count, and the caller *)
(* runs on them the operators that need a duration                         *)
(***************************************************************************)
\* the most points of a scaffold
MaxScaffold == 3

\* the operator classes whose execute() asks its input for a duration
DurationKinds == {"TRMS", "TCorrelator", "TAmplitudeDetector", "TFrequencyAnalyzer"}

NextScaffold ==
    \/ \E l \in Lines, pointsCount \in 0..MaxScaffold : NewPointsCount(l, pointsCount)
    \/ NewRMS("A")
    \/ \E performNormalization \in {Nullopt, Some(FALSE)} :
           NewCorrelator("A", "B", performNormalization)
    \/ NewAmplitudeDetector("A")
    \/ NewFrequencyAnalyzer("A", Rat(25, 3), Rat(50, 3), Rat(25, 3), Nullopt)
    \/ \E undef \in {Zero, One} :
           \/ ExecuteRMS(undef)
           \/ ExecuteCorrelator(undef)
           \/ ExecuteAmplitudeDetector(undef)
           \/ ExecuteFrequencyAnalyzer(undef)
    \/ GetResult

SpecScaffold == Init /\ [][NextScaffold]_vars

\* the time-domain members of a parameter record
TimeDomain(params) ==
    {params.samplingFrequency, params.duration, params.oscillationFrequency,
     params.initPhase, params.offsetY, params.amplitude}

\* C14: a buffer just built from a point count has that count of points, all
\* (0, 0), and no samplingFrequency, duration, oscillationFrequency, initPhase,
\* offsetY or amplitude; and execute() of RMS, Correlator, AmplitudeDetector
\* and FrequencyAnalyzer on such buffers fails
C14_ScaffoldHasNoTimeDomain ==
    /\ ret.call = "TSignalLine(size_t)"
       => LET sl == mem[ret.args[1]]
          IN  /\ sl._params.pointsCount = ret.args[2]
              /\ sl._points = [i \in 1..ret.args[2] |-> Point(Zero, Zero)]
              /\ \A member \in TimeDomain(sl._params) : ~HasValue(member)
    /\ (kind \in DurationKinds /\ ret.call = "execute") => ret.status # "ok"

\* C15: every buffer that carries both a duration and a samplingFrequency has
\* both of them positive, whichever constructor built it and under whichever
\* preference
C15_TimeBaseIsPositive ==
    \A l \in Lines :
        (HasValue(mem[l]._params.duration)
         /\ HasValue(mem[l]._params.samplingFrequency))
        => /\ RGt(mem[l]._params.duration[1], Zero)
           /\ RGt(mem[l]._params.samplingFrequency[1], Zero)

(***************************************************************************)
(* Measurement: buffer A holds a generated wave, a derivative the caller   *)
(* has stored, or a buffer built from a parameter record, buffer B a       *)
(* cosine wave, and the caller takes the RMS value, the correlation and    *)
(* the amplitude                                                           *)
(***************************************************************************)
\* the buffers a measurement starts from
MeasureBuffers ==
    {Generated(ShortWave(2)),
     Generated(ShortWave(4)),
     Generated(LifecycleWave("SineWave", One)),
     Generated(LifecycleWave("CosineWave", Zero)),
     TSignalLine_Params([TSignalLineParams EXCEPT
                            !.samplingFrequency = Some(One),
                            !.duration = Some(Int2D(2)),
                            !.pointsCount = 5],
                        Some("PreferPointsCount"), Zero).sl[1]}

InitMeasure ==
    /\ mem \in {[A |-> a, B |-> Generated(LifecycleWave("CosineWave", Zero))] :
                   a \in MeasureBuffers}
    /\ kind = "none"
    /\ op = NoOperator
    /\ ret = Call("none", <<>>, "ok", "", FALSE)
    /\ succeeded = FALSE
    /\ executes = 0
    /\ setPoints = 0

NextMeasure ==
    \/ /\ setPoints < MaxEdits
       /\ SetPoint("A", 0, Zero, Int2D(2))
    \/ NewDifferentiator("A", FALSE, "CentralOnly")
    \/ ExecuteDifferentiator
    \/ /\ kind = "TDifferentiator"
       /\ StoreResult("A")
    \/ NewRMS("A")
    \/ \E undef \in {Zero, One} : ExecuteRMS(undef)
    \/ \E signalLine2 \in Lines, performNormalization \in {Nullopt, Some(FALSE)} :
           NewCorrelator("A", signalLine2, performNormalization)
    \/ \E undef \in {Zero, One} : ExecuteCorrelator(undef)
    \/ NewAmplitudeDetector("A")
    \/ \E undef \in {Zero, One} : ExecuteAmplitudeDetector(undef)
    \/ GetResult

SpecMeasure == InitMeasure /\ [][NextMeasure]_vars

\* execute() of an RMS operator on buffer A has just returned or thrown
RMSRan == kind = "TRMS" /\ ret.call = "execute"

\* C16: execute() of an RMS operator on a buffer that has a duration and two
\* points or more succeeds, and the square of its value is the trapezoidal
\* integral of y*y over the points of that buffer, divided by the duration
C16_RMSOfAnyBuffer ==
    (/\ RMSRan
     /\ HasValue(mem.A._params.duration)
     /\ Len(mem.A._points) >= 2)
    => /\ ret.status = "ok"
       /\ RMul(op._rmsValue, op._rmsValue) = RawCorrelation(mem.A, mem.A)

\* execute() of a correlator of buffer A with a buffer has just succeeded
CorrelatorRan ==
    kind = "TCorrelator" /\ ret.call = "execute" /\ ret.status = "ok"

\* C17: after a successful execute() the correlation value is the trapezoidal
\* integral of the product of the two buffers divided by the duration, and,
\* unless normalization was turned off, that divided by the RMS values of the
\* two; the normalized correlation of a buffer of nonzero RMS with itself is 1
C17_CorrelationValue ==
    CorrelatorRan
    => LET signalLine1 == mem[op._params.signalLine1]
           signalLine2 == mem[op._params.signalLine2]
           normalized == ValueOr(op._params.performNormalization,
                                 DEFAULT_PERFORM_NORMALIZATION)
       IN  /\ op._correlationValue =
                  IF normalized
                  THEN NormalizedCorrelation(signalLine1, signalLine2)
                  ELSE RawCorrelation(signalLine1, signalLine2)
           /\ (/\ normalized
               /\ op._params.signalLine1 = op._params.signalLine2
               /\ RGt(RootMeanSquare(signalLine1), Zero))
              => op._correlationValue = One

\* execute() of an amplitude detector of buffer A has just succeeded
AmplitudeRan ==
    kind = "TAmplitudeDetector" /\ ret.call = "execute" /\ ret.status = "ok"

\* every sample of a buffer is a finite number
FiniteSamples(sl) ==
    \A i \in 1..Len(sl._points) :
        ~IsNaN(sl._points[i].y) /\ ~IsInf(sl._points[i].y)

\* a buffer after DC removal: every sample lowered by (max + min)/2 if |min|
\* and |max| differ by more than the tolerance, the buffer itself otherwise
WithoutDC(sl, tolerance) ==
    LET maxValue == ExtremeY(sl, TRUE)
        minValue == ExtremeY(sl, FALSE)
        shift == RDiv(RAdd(maxValue, minValue), Int2D(2))
    IN  IF RGt(RAbs(RSub(RAbs(minValue), RAbs(maxValue))), tolerance)
        THEN [sl EXCEPT !._points =
                 [i \in 1..Len(sl._points) |->
                     Point(sl._points[i].x, RSub(sl._points[i].y, shift))]]
        ELSE sl

\* C18: after a successful execute() of an amplitude detector of a buffer of
\* finite samples, the square of the amplitude is twice the trapezoidal
\* integral of z*z divided by the duration, z being the buffer after DC
\* removal with the largest and the smallest of its samples
C18_AmplitudeOfDCRemoved ==
    (AmplitudeRan /\ Len(mem.A._points) > 0 /\ FiniteSamples(mem.A))
    => LET z == WithoutDC(mem.A, AD_DEFAULT_INACCURACY)
       IN  RMul(op._amplitude, op._amplitude) =
               RMul(Int2D(2), RawCorrelation(z, z))

(***************************************************************************)
(* Guards: the caller's buffers are a wave or a buffer without duration,   *)
(* the caller may replace a buffer by one without duration, and every      *)
(* consuming operator is built over the buffers or over no buffer and run  *)
(***************************************************************************)
\* TSignalLineParams p; p.samplingFrequency = 1; p.duration = std::nullopt;
\* p.pointsCount = 3; TSignalLine(p, Preference::PreferPointsCount)
NoDuration(l) ==
    NewParams(l, Some(One), Nullopt, 3, Some("PreferPointsCount"), Zero)

GuardBuffers ==
    {Generated(ShortWave(2)),
     TSignalLine_Params([TSignalLineParams EXCEPT
                            !.samplingFrequency = Some(One),
                            !.duration = Nullopt,
                            !.pointsCount = 3],
                        Some("PreferPointsCount"), Zero).sl[1]}

\* what an operator is built over: a buffer of the caller, or no buffer
Pointers == Lines \cup {nullptr}

InitGuard ==
    /\ mem \in [Lines -> GuardBuffers]
    /\ kind = "none"
    /\ op = NoOperator
    /\ ret = Call("none", <<>>, "ok", "", FALSE)
    /\ succeeded = FALSE
    /\ executes = 0
    /\ setPoints = 0

NextGuard ==
    \/ \E l \in Lines : NoDuration(l)
    \/ \E signalLine \in Pointers : NewNoiseGenerator(signalLine, One, "White")
    \/ \E undef \in {Zero, One}, draws \in NoiseDraws :
           ExecuteNoiseGenerator(undef, draws)
    \/ \E signalLine1 \in Pointers, signalLine2 \in Pointers :
           NewSummator(signalLine1, signalLine2, Some(DEFAULT_INACCURACY))
    \/ \E undef \in {Zero, One} : ExecuteSummator(undef)
    \/ \E signalLine1 \in Pointers, signalLine2 \in Pointers :
           NewMultiplier(signalLine1, signalLine2, Some(DEFAULT_INACCURACY))
    \/ \E undef \in {Zero, One} : ExecuteMultiplier(undef)
    \/ \E signalLine \in Pointers : NewIntegrator(signalLine, "Trapezoidal")
    \/ ExecuteIntegrator
    \/ \E signalLine \in Pointers :
           NewDifferentiator(signalLine, FALSE, "CentralOnly")
    \/ ExecuteDifferentiator
    \/ \E signalLine \in Pointers : NewRMS(signalLine)
    \/ \E undef \in {Zero, One} : ExecuteRMS(undef)
    \/ \E signalLine1 \in Pointers, signalLine2 \in Pointers :
           NewCorrelator(signalLine1, signalLine2, Nullopt)
    \/ \E undef \in {Zero, One} : ExecuteCorrelator(undef)
    \/ \E signalLine \in {"A", nullptr} : NewAmplitudeDetector(signalLine)
    \/ \E undef \in {Zero, One} : ExecuteAmplitudeDetector(undef)
    \/ \E signalLine \in Pointers :
           NewFrequencyAnalyzer(signalLine, Rat(1, 4), Rat(1, 2), Rat(1, 4),
                                Nullopt)
    \/ \E undef \in {Zero, One} : ExecuteFrequencyAnalyzer(undef)
    \/ GetResult

SpecGuard == InitGuard /\ [][NextGuard]_vars

\* the operator classes that read an input buffer
ConsumingKinds == (BufferKinds \cup ScalarKinds) \ {"TGenerator"}

\* the buffers the operator object was built over; an amplitude detector,
\* built over A or over no buffer, may by now point to its own shifted copy
InputsOf(class, obj) ==
    IF class \in {"TSummator", "TMultiplier", "TCorrelator"}
    THEN {obj._params.signalLine1, obj._params.signalLine2}
    ELSE IF class = "TAmplitudeDetector" /\ obj._params.signalLine = normalizedPtr
    THEN {"A"}
    ELSE {obj._params.signalLine}

\* this step is an execute() of a consuming operator that was built over no
\* buffer, or of an operator that needs a duration and has an input without
GuardedStep ==
    /\ ret'.call = "execute"
    /\ kind \in ConsumingKinds
    /\ \/ nullptr \in InputsOf(kind, op)
       \/ /\ kind \in DurationKinds
          /\ \E l \in InputsOf(kind, op) \ {nullptr} :
                 ~HasValue(mem[l]._params.duration)

\* C19: execute() of a consuming operator built over no buffer fails, and so
\* does execute() of an RMS operator, a correlator, an amplitude detector or
\* a frequency analyzer with an input that has no duration; the failure
\* leaves the operator object, its result and the caller's buffers as they
\* were
C19_GuardsLeaveResultAlone ==
    [][GuardedStep => (ret'.status # "ok" /\ op' = op /\ mem' = mem)]_vars

\* the statuses of the library's own error class, under its present and its
\* former name
LibraryErrors == {"SignalProcessingError", "SignalProcesserException"}

\* C20: a call of a buffer constructor or of an operator's constructor,
\* execute() or accessor returns normally or fails with the library's own
\* error; nothing else leaves the call
C20_OnlyLibraryErrors == ret.status \in {"ok"} \cup LibraryErrors

\* a buffer without its cached largest and smallest y
Uncached(sl) ==
    [sl EXCEPT !._params.maxValue = Nullopt, !._params.minValue = Nullopt]

\* a cache cell after the step is what it was, or was empty and now holds
\* the extreme y of the points
Filled(before, after, sl, greater) ==
    \/ after = before
    \/ /\ ~HasValue(before)
       /\ Len(sl._points) > 0
       /\ after = Some(ExtremeY(sl, greater))

\* C21 as stated: execute() of a consuming operator leaves every buffer of
\* the caller exactly as it was: the points, the parameter record and the
\* cached largest and smallest y
C21_InputsUntouched ==
    [][ret'.call = "execute" => mem' = mem]_vars

\* C21: execute() of a consuming operator, whether it succeeds or fails,
\* leaves the points and the parameters of every buffer of the caller as
\* they were; only the cached largest and smallest y may change, and only
\* from empty to the extreme y of the buffer's points, which an amplitude
\* detector stores when it calls findMax() and findMin() on its input
C21_InputsKeepPoints ==
    [][ret'.call = "execute"
       => \A l \in Lines :
              /\ Uncached(mem'[l]) = Uncached(mem[l])
              /\ Filled(mem[l]._params.maxValue, mem'[l]._params.maxValue,
                        mem[l], TRUE)
              /\ Filled(mem[l]._params.minValue, mem'[l]._params.minValue,
                        mem[l], FALSE)
              /\ (mem'[l] # mem[l] => kind = "TAmplitudeDetector")]_vars

\* an amplitude detector has just run on buffer A and has left the extremes
\* of A in its cache
C21_Witness ==
    /\ kind = "TAmplitudeDetector"
    /\ ret.call = "execute"
    /\ ret.status = "ok"
    /\ mem.A._params.maxValue = Some(One)
    /\ mem.A._params.minValue = Some(Zero)
    /\ mem.A._points = Generated(ShortWave(2))._points

\* an inaccuracy is given and is negative
Negative(inaccuracy) == HasValue(inaccuracy) /\ RLt(inaccuracy[1], Zero)

\* the last call failed with the invalid-parameter error of areCloseX
RejectedInaccuracy ==
    /\ ret.status = "SignalProcessingError"
    /\ ret.what = "Inaccuracy should be positive"

\* C22: on buffers that hold points, equals with a negative inaccuracy raises
\* the invalid-parameter error for every pair of buffers, and so does
\* execute() of a summator or a multiplier that was built with a negative
\* inaccuracy
C22_NegativeInaccuracyRejected ==
    /\ (/\ ret.call = "equals"
        /\ Negative(ret.args[3])
        /\ Len(mem[ret.args[1]]._points) >= 1
        /\ Len(mem[ret.args[2]]._points) >= 1)
       => RejectedInaccuracy
    /\ (/\ kind \in {"TSummator", "TMultiplier"}
        /\ ret.call = "execute"
        /\ Negative(op._params.inaccuracy)
        /\ Len(mem.A._points) >= 1
        /\ Len(mem.B._points) >= 1)
       => RejectedInaccuracy

(***************************************************************************)
(* Constant signals: buffer A holds a generated signal whose samples all   *)
(* equal offsetY, and the caller integrates it                             *)
(***************************************************************************)
ConstantFrequencies == {One, Int2D(2)}

ConstantDurations ==
    {Rat(1, 2), One, Rat(3, 2), Int2D(2), Rat(5, 2), Rat(7, 2), Int2D(4)}

ConstantLevels == {Int2D(-1), Int2D(3)}

\* a sine of oscillation frequency 0 and phase 0: sin(0) * 1 + offsetY
ConstantWave(samplingFreq, duration, level) ==
    TGeneratorParams(samplingFreq, duration, Zero, Zero, level, One,
                     "SineWave", Some(DEFAULT_CLAMP_VALUE))

InitConstant ==
    /\ mem \in {[A |-> Generated(ConstantWave(samplingFreq, duration, level)),
                 B |-> TSignalLine_PointsCount(0).sl[1]] :
                   samplingFreq \in ConstantFrequencies,
                   duration \in ConstantDurations,
                   level \in ConstantLevels}
    /\ kind = "none"
    /\ op = NoOperator
    /\ ret = Call("none", <<>>, "ok", "", FALSE)
    /\ succeeded = FALSE
    /\ executes = 0
    /\ setPoints = 0

NextConstant ==
    \/ \E method \in IntegrationMethods : NewIntegrator("A", method)
    \/ ExecuteIntegrator
    \/ GetResult

SpecConstant == InitConstant /\ [][NextConstant]_vars

\* the buffer is on the generator's grid x[i] = i / samplingFrequency and all
\* its samples equal level
OnGridAt(sl, level) ==
    \A i \in 0..(Len(sl._points) - 1) :
        /\ XAt(sl, i) = RDiv(Int2D(i), sl._params.samplingFrequency[1])
        /\ YAt(sl, i) = level

\* execute() has just run on the constant signal in A, whose number of points
\* meets the constraint of the method
ConstantIntegrated ==
    /\ IntegratorRan
    /\ OnGridAt(mem.A, mem.A._params.offsetY[1])
    /\ MeetsConstraint(op._params.method, Len(mem.A._points))

\* duration * samplingFrequency of the buffer is a whole number
WholeGrid(sl) ==
    RCeil(RMul(sl._params.duration[1], sl._params.samplingFrequency[1]))
        = RMul(sl._params.duration[1], sl._params.samplingFrequency[1])

RoundTripGrids == {<<One, Int2D(4)>>, <<Int2D(2), Int2D(2)>>, <<One, Rat(5, 2)>>}

\* a sine of a quarter turn per sample
RoundTripWave(grid, initPhase, offsetY, amplitude) ==
    TGeneratorParams(grid[1], grid[2], RDiv(grid[1], Int2D(4)), initPhase,
                     offsetY, amplitude,
                     "SineWave", Some(DEFAULT_CLAMP_VALUE))

\* the generator parameters a sine buffer's parameter record names
WaveOf(sl) ==
    TGeneratorParams(sl._params.samplingFrequency[1], sl._params.duration[1],
                     sl._params.oscillationFrequency[1], sl._params.initPhase[1],
                     sl._params.offsetY[1], sl._params.amplitude[1],
                     "SineWave", Some(DEFAULT_CLAMP_VALUE))

\* for (i = 0; i < n; ++i) sl.setPoint(i, sl.getPoint(i).x, -sl.getPoint(i).y)
RECURSIVE NegateFrom(_, _)
NegateFrom(i, sl) ==
    IF ~InRange(sl, i) THEN sl
    ELSE NegateFrom(i + 1, setPoint(sl, i, getPoint(sl, i).x,
                                    RNeg(getPoint(sl, i).y)))

\* A = *op.getSignalLine(); then the loop that negates B
Invert ==
    /\ kind = "TSummator"
    /\ op._isExecuted
    /\ op._params.signalLine1 = "A"
    /\ op._params.signalLine2 = "B"
    /\ setPoints = 0
    /\ mem' = [A |-> op._sl[1], B |-> NegateFrom(0, mem.B)]
    /\ setPoints' = setPoints + Len(mem.B._points)
    /\ ret' = Call("invert", <<>>, "ok", "", FALSE)
    /\ UNCHANGED <<kind, op, succeeded, executes>>

InitRoundTrip ==
    /\ mem \in {[A |-> Generated(RoundTripWave(grid, initPhase, Zero, amplitude)),
                 B |-> b] :
                   grid \in RoundTripGrids,
                   initPhase \in {Zero, Num(1, 2, 1, 1)},
                   amplitude \in {One, Int2D(2)},
                   b \in {Generated(RoundTripWave(g, Zero, offsetY, One)) :
                             g \in RoundTripGrids, offsetY \in {Zero, One}}
                         \cup {TSignalLine_FreqDuration(g[1], g[2]).sl[1] :
                                  g \in RoundTripGrids}}
    /\ kind = "none"
    /\ op = NoOperator
    /\ ret = Call("none", <<>>, "ok", "", FALSE)
    /\ succeeded = FALSE
    /\ executes = 0
    /\ setPoints = 0

NextRoundTrip ==
    \/ \E inaccuracy \in {Nullopt, Some(DEFAULT_INACCURACY)} :
           NewSummator("A", "B", inaccuracy)
    \/ ExecuteSummator(Zero)
    \/ Invert
    \/ GetResult

SpecRoundTrip == InitRoundTrip /\ [][NextRoundTrip]_vars

\* the two buffers are built from the same (samplingFrequency, duration) and
\* have the same x at every index
SameGrid(a, b) ==
    /\ a._params.samplingFrequency = b._params.samplingFrequency
    /\ a._params.duration = b._params.duration
    /\ Len(a._points) = Len(b._points)
    /\ \A i \in 0..(Len(a._points) - 1) : XAt(a, i) = XAt(b, i)

\* the A the run started from, which the parameter record of A still names
\* when A holds the kept sum
OriginalA == Generated(WaveOf(mem.A))

\* the summator has just been executed, the original A and B being of the
\* same grid
SummedOnSameGrid ==
    /\ kind = "TSummator"
    /\ ret.call = "execute"
    /\ SameGrid(OriginalA, mem.B)

ClampValues ==
    {Nullopt, Some(Int2D(-1)), Some(Zero), Some(Rat(3, 2)), Some(Int2D(10))}

WaveAmplitudes == {One, Int2D(2), Int2D(-1)}

Methods == {"SineWave", "CosineWave", "TangentWave", "CotangentWave"}

\* one sample per second for 8 seconds; a quarter turn per sample, and for
\* the tangent and the cotangent also an eighth of a turn per sample
Waveforms ==
    {TGeneratorParams(One, Int2D(8), Rat(1, 4), Zero, offsetY, amplitude,
                      method, clampValue) :
        offsetY \in {Zero, One}, amplitude \in WaveAmplitudes,
        method \in Methods, clampValue \in ClampValues}
    \cup {TGeneratorParams(One, Int2D(8), Rat(1, 8), Zero, offsetY, amplitude,
                           method, clampValue) :
             offsetY \in {Zero, One}, amplitude \in WaveAmplitudes,
             method \in {"TangentWave", "CotangentWave"},
             clampValue \in ClampValues}

NextWaveform ==
    \/ \E params \in Waveforms : NewGenerator(params)
    \/ ExecuteGenerator
    \/ GetResult

SpecWaveform == Init /\ [][NextWaveform]_vars

TanLike(method) == method \in {"TangentWave", "CotangentWave"}

\* every y of the buffer lies in [offsetY - clampValue, offsetY + clampValue]
WithinClamp(sl, offsetY, clampValue) ==
    \A i \in 0..(Len(sl._points) - 1) :
        /\ RLe(RSub(offsetY, clampValue), YAt(sl, i))
        /\ RLe(YAt(sl, i), RAdd(offsetY, clampValue))

ArgAt(params, i) ==
    RAdd(RDiv(RMul(RMul(TWO_PI, params.oscillationFreq), Int2D(i)),
              params.samplingFreq),
         params.initPhase)

\* |value| <= clampValue: clamping leaves value as it is
Unclamped(value, clampValue) ==
    RLe(RNeg(clampValue), value) /\ RLe(value, clampValue)

\* y - offsetY of sample i as the formula of the waveform gives it, or no
\* value where the formula leaves the sample to the clamp
FormulaAt(params, i) ==
    LET arg == ArgAt(params, i)
        scaled(f) == RMul(f, params.amplitude)
        kept(value) == IF Unclamped(value, params.clampValue[1])
                       THEN Some(value) ELSE Nullopt
    IN  CASE params.method = "SineWave" -> Some(scaled(Sin(arg)))
          [] params.method = "CosineWave" -> Some(scaled(Cos(arg)))
          [] params.method = "TangentWave" -> kept(scaled(Tan(arg)))
          [] params.method = "CotangentWave" ->
                 IF Tan(arg) = Zero THEN Nullopt
                 ELSE kept(RMul(params.amplitude, RDiv(One, Tan(arg))))

\* the generator has just been executed
GeneratorRan ==
    /\ kind = "TGenerator"
    /\ ret.call = "execute"
    /\ ret.status = "ok"

\* C26: every sample of an executed generator is f(arg) * amplitude + offsetY
\* with arg = 2 * pi * freq * i / fs + phase; for the cotangent, at every
\* sample where the tangent is not zero and the clamp does not bind, it is
\* amplitude * (1 / tan(arg)) + offsetY
C26_WaveformFollowsFormula ==
    GeneratorRan
    => \A i \in 0..(Len(op._sl[1]._points) - 1) :
           HasValue(FormulaAt(op._params, i))
           => YAt(op._sl[1], i)
                  = RAdd(FormulaAt(op._params, i)[1], op._params.offsetY)

\* the same with the cotangent left out: sine, cosine and tangent follow the
\* formula
OtherWaveformsFollowFormula ==
    (GeneratorRan /\ op._params.method # "CotangentWave")
    => C26_WaveformFollowsFormula

(***************************************************************************)
(* Fresh buffers: the caller asks A and B for their extremes and then      *)
(* derives a buffer from them: an offset copy, a sum, a product, a noisy   *)
(* copy or a derivative                                                    *)
(***************************************************************************)
InitFresh ==
    /\ mem \in {[A |-> Generated(LifecycleWave("SineWave", offsetY)),
                 B |-> Generated(LifecycleWave("CosineWave", One))] :
                   offsetY \in {Zero, One}}
    /\ kind = "none"
    /\ op = NoOperator
    /\ ret = Call("none", <<>>, "ok", "", FALSE)
    /\ succeeded = FALSE
    /\ executes = 0
    /\ setPoints = 0

NextFresh ==
    \/ \E l \in Lines, greater \in BOOLEAN :
           FindExtreme(l, greater, FALSE, Zero)
    \/ \E offsetY \in {Zero, One} : NewOffset("B", "A", Zero, offsetY)
    \/ NewSummator("A", "B", Nullopt)
    \/ NewMultiplier("A", "B", Nullopt)
    \/ NewNoiseGenerator("A", Rat(1, 2), "White")
    \/ \E method \in DifferentiationMethods : NewDifferentiator("A", FALSE, method)
    \/ ExecuteSummator(Zero)
    \/ ExecuteMultiplier(Zero)
    \/ ExecuteNoiseGenerator(Zero, <<One>>)
    \/ ExecuteDifferentiator
    \/ GetResult

SpecFresh == InitFresh /\ [][NextFresh]_vars

\* each cache cell of the buffer is empty or holds the extreme of the
\* buffer's own points, so that a non-forced findMax()/findMin() returns it
CacheSound(sl) ==
    \A greater \in BOOLEAN :
        \/ CacheOf(sl, greater) = Nullopt
        \/ /\ Len(sl._points) > 0
           /\ CacheOf(sl, greater) = Some(ExtremeY(sl, greater))

\* the buffer the last call has produced, if it has produced one
Produced ==
    IF ret.call = "TSignalLine(const TSignalLine*, double, double)"
       /\ ret.status = "ok"
    THEN <<mem[ret.args[1]]>>
    ELSE IF /\ ret.call = "execute"
            /\ ret.status = "ok"
            /\ kind \in {"TSummator", "TMultiplier", "TNoiseGenerator",
                         "TDifferentiator"}
    THEN op._sl
    ELSE <<>>

\* C27: the buffer an offset copy or a successful execute() of a summator,
\* multiplier, noise injector or differentiator has just produced has each
\* cache cell empty or equal to the extreme of its own points
C27_FreshCacheSound ==
    Produced # <<>> => CacheSound(Produced[1])

\* this step is a successful execute() of an amplitude detector
AmplitudeStep ==
    /\ kind = "TAmplitudeDetector"
    /\ ret'.call = "execute"
    /\ ret'.status = "ok"

\* C28: a successful execute() of an amplitude detector leaves
\* getParams().signalLine designating the buffer of the caller it designated
\* before, and when it follows a successful execute() of the same detector
\* with no call in between, it yields the amplitude the first one yielded
C28_ExecuteTwiceSameAmplitude ==
    [][AmplitudeStep
       => /\ op'._params.signalLine = op._params.signalLine
          /\ op'._params.signalLine \in Lines
          /\ (ret.call = "execute" /\ ret.status = "ok")
             => op'._amplitude = op._amplitude]_vars

\* the amplitude alone: a successful execute() that follows a successful
\* execute() of the same detector yields the same amplitude
SecondAmplitudeSame ==
    [][(AmplitudeStep /\ ret.call = "execute" /\ ret.status = "ok")
       => op'._amplitude = op._amplitude]_vars

\* the designation alone, at the first execute() of a detector
FirstExecuteKeepsInput ==
    [][(AmplitudeStep /\ ret.call # "execute")
       => op'._params.signalLine = op._params.signalLine]_vars

(***************************************************************************)
(* Centring: the caller removes the DC component of buffer A, in between   *)
(* asks it for its extremes and writes points of it                        *)
(***************************************************************************)
\* the most writing calls (setPoint, removeDCComponent) of a run
MaxCentreWrites == 3

CentreInaccuracies == {Rat(1, 1000), Rat(1, 2)}

\* mem[l].removeDCComponent(inaccuracy)
RemoveDC(l, inaccuracy) ==
    /\ setPoints < MaxCentreWrites
    /\ Len(mem[l]._points) > 0
    /\ mem' = [mem EXCEPT ![l] = removeDCComponent(@, Some(inaccuracy), Zero)]
    /\ ret' = Call("removeDCComponent", <<l, inaccuracy>>, "ok", "", FALSE)
    /\ setPoints' = setPoints + 1
    /\ UNCHANGED <<kind, op, succeeded, executes>>

InitCentre ==
    /\ mem \in {[A |-> a, B |-> TSignalLine_PointsCount(0).sl[1]] :
                   a \in {Generated(LifecycleWave("SineWave", Zero)),
                          Generated(LifecycleWave("SineWave", One)),
                          Generated(LifecycleWave("CosineWave", Int2D(-2))),
                          Generated(ShortWave(2)),
                          TSignalLine_PointsCount(2).sl[1]}}
    /\ kind = "none"
    /\ op = NoOperator
    /\ ret = Call("none", <<>>, "ok", "", FALSE)
    /\ succeeded = FALSE
    /\ executes = 0
    /\ setPoints = 0

NextCentre ==
    \/ \E inaccuracy \in CentreInaccuracies : RemoveDC("A", inaccuracy)
    \/ \E greater \in BOOLEAN, forceUpdate \in BOOLEAN :
           FindExtreme("A", greater, forceUpdate, Zero)
    \/ /\ setPoints < MaxCentreWrites
       /\ \E write \in CacheWrites : SetPoint("A", write[1], Zero, write[2])

SpecCentre == InitCentre /\ [][NextCentre]_vars

\* | |min| - |max| | > inaccuracy for the extremes of the buffer's points
OffCentre(sl, inaccuracy) ==
    RGt(RAbs(RSub(RAbs(ExtremeY(sl, FALSE)), RAbs(ExtremeY(sl, TRUE)))),
        inaccuracy)

\* this step is a call of removeDCComponent on A
RemovalStep == ret'.call = "removeDCComponent"

\* C29: a call of removeDCComponent on a buffer whose extremes are off centre
\* by more than the inaccuracy leaves the buffer with max = -min, and a call
\* that follows a call with the same inaccuracy, nothing in between, leaves
\* every point as it is
C29_RemovalCentresOnce ==
    [][RemovalStep
       => /\ OffCentre(mem.A, ret'.args[2])
             => ExtremeY(mem'.A, TRUE) = RNeg(ExtremeY(mem'.A, FALSE))
          /\ (ret.call = "removeDCComponent" /\ ret.args = ret'.args)
             => mem'.A._points = mem.A._points]_vars

\* the first half alone, on a buffer whose cache is empty
FirstRemovalCentres ==
    [][(/\ RemovalStep
        /\ mem.A._params.maxValue = Nullopt
        /\ mem.A._params.minValue = Nullopt
        /\ OffCentre(mem.A, ret'.args[2]))
       => ExtremeY(mem'.A, TRUE) = RNeg(ExtremeY(mem'.A, FALSE))]_vars

\* the second half alone
SecondRemovalIdle ==
    [][(RemovalStep /\ ret.call = "removeDCComponent" /\ ret.args = ret'.args)
       => mem'.A._points = mem.A._points]_vars

\* the first half alone, whatever the cache
AnyRemovalCentres ==
    [][(RemovalStep /\ OffCentre(mem.A, ret'.args[2]))
       => ExtremeY(mem'.A, TRUE) = RNeg(ExtremeY(mem'.A, FALSE))]_vars

\* the x-coordinates of a buffer increase from each point to the next
Increasing(sl) ==
    \A i \in 0..(Len(sl._points) - 2) : RLt(XAt(sl, i), XAt(sl, i + 1))

\* C30: after a successful execute() of a differentiator on a buffer of n
\* points, output.x[i] = input.x[i] for i in 0..n-1 under CentralAndEdges and
\* output.x[k] = input.x[k+1] for k in 0..n-3 under CentralOnly, and the
\* x-coordinates of the output increase whenever those of the input do
C30_DerivativeKeepsAbscissa ==
    (DerivativeRan /\ ret.status = "ok")
    => LET input == mem[op._params.signalLine]
           output == op._sl[1]
           n == Len(input._points)
       IN  /\ op._params.method = "CentralAndEdges"
              => \A i \in 0..(n - 1) : XAt(output, i) = XAt(input, i)
           /\ op._params.method = "CentralOnly"
              => \A k \in 0..(n - 3) : XAt(output, k) = XAt(input, k + 1)
           /\ Increasing(input) => Increasing(output)

\* what the outputs do carry: the x-coordinate of the point before
\* (output.x[i] = input.x[i-1] for the central differences of CentralAndEdges,
\* output.x[k] = input.x[k] under CentralOnly) and at the edges input.x[0] and
\* input.x[n-2]
DerivativeCarriesAbscissaBefore ==
    (DerivativeRan /\ ret.status = "ok")
    => LET input == mem[op._params.signalLine]
           output == op._sl[1]
           n == Len(input._points)
       IN  /\ op._params.method = "CentralAndEdges"
              => /\ XAt(output, 0) = XAt(input, 0)
                 /\ XAt(output, n - 1) = XAt(input, n - 2)
                 /\ \A i \in 1..(n - 2) : XAt(output, i) = XAt(input, i - 1)
           /\ op._params.method = "CentralOnly"
              => \A k \in 0..(n - 3) : XAt(output, k) = XAt(input, k)
====
